---------------------------- MODULE Spec2Model ----------------------------
(***************************************************************************)
(* Data-acquisition layer of the stock dashboard:                          *)
(*   - the watchlist controller   (hooks/useStockData.ts)                  *)
(*   - the batch orchestrator     (services/StockAPIService.ts)            *)
(*   - the chart controller       (useChartData)                           *)
(*   - the quote transport        (StockAPIService.fetchWithRetry)         *)
(*                                                                         *)
(* JavaScript runs the handlers on one event loop.  A handler runs until   *)
(* it awaits a network response or a timer; everything a promise           *)
(* continuation does up to its next such await is one step here.  A        *)
(* rejection caused by AbortController.abort() is delivered in the         *)
(* microtasks of the very task that called abort(), hence before any       *)
(* other event: the actions that deliver it have priority (Quiescent).     *)
(***************************************************************************)
EXTENDS Integers, Sequences, FiniteSets, TLC

VARIABLES
    FINNHUB_API_KEY,     \* TRUE iff the credential is configured (constants.ts:2)
    \* ---- useStockData ----
    wlMounted,           \* the hook is mounted
    trackedSymbols,      \* useState<string[]>(symbols)
    stocks,              \* useState<StockQuote[]>([])
    profiles,            \* useState<Map<string, CompanyProfile>>(new Map())
    loading,             \* useState(true)
    error,               \* useState<string | null>(null)
    refreshing,          \* useState(false)
    abortControllerRef,  \* useRef<AbortController | null>(null): id of the controller, 0 = null
    aborted,             \* ids of the controllers whose signal is aborted
    cycles,              \* the invocations of fetchStockData, in start order
    requests,            \* network requests sent by the invocations
    \* ---- useChartData ----
    chartMounted,        \* the hook is mounted
    chartData,           \* useState<HistoricalData | null>(null)
    chartLoading,        \* useState(false)
    chartError,          \* useState<string | null>(null)
    chartIsDemoData,     \* useState(false)
    chartAbortRef,       \* abortControllerRef of the hook: id of the controller, 0 = null
    chartAborted,        \* ids of the hook's controllers whose signal is aborted
    currentSymbolRef,    \* useRef<string | null>(null)
    chartCalls,          \* the invocations of fetchChartData, in start order
    \* ---- StockAPIService.fetchWithRetry ----
    tx,                  \* one invocation of fetchWithRetry
    \* ---- the environment: Date, localStorage ----
    clock,               \* what new Date() reads: local wall clock and time zone
    localStorage,        \* the items of window.localStorage the dashboard uses
    \* ---- calls of pure functions ----
    series,              \* what the latest call of generateDemoChartData returned
    loaded,              \* the latest calls of setTrackedSymbols and getTrackedSymbols
    \* ---- the auto-refresh timers of the two hooks ----
    wlTimer,             \* useStockData: options, refreshIntervalRef, running timers
    chTimer,             \* useChartData: options, refreshIntervalRef, running timers
    \* ---- StockDashboard ----
    dash,                \* the state of the component
    updaters             \* updaters queued by setTrackedSymbols of useStockData

wlVars == <<wlMounted, trackedSymbols, stocks, profiles, loading, error,
            refreshing, abortControllerRef, aborted, cycles, requests>>

chVars == <<chartMounted, chartData, chartLoading, chartError, chartIsDemoData,
            chartAbortRef, chartAborted, currentSymbolRef, chartCalls>>

appVars == <<clock, localStorage, series, loaded, wlTimer, chTimer, dash, updaters>>

vars == <<FINNHUB_API_KEY, wlVars, chVars, tx, appVars>>

----------------------------------------------------------------------------
(* Bounds of the model *)

MaxCycles == 3       \* invocations of fetchStockData in one run
MaxTracked == 2      \* length of the tracked-symbol list
MaxChartCalls == 3   \* invocations of fetchChartData in one run
MaxRetries == 3      \* the retry budget passed to fetchWithRetry

(* Values *)

NULL == "null"
Tickers == {"AAPL", "BAD1"}
ProviderPrices == {0, 17543}     \* data.c of a quote response, in cents

EmptyMap == <<>>
MapSet(m, k, v) == (k :> v) @@ m
Range(s) == {s[k] : k \in 1..Len(s)}
NoDup(s) == \A a, b \in 1..Len(s) : s[a] = s[b] => a = b
SymbolLists == {s \in UNION {[1..n -> Tickers] : n \in 0..MaxTracked} : NoDup(s)}

REQUEST_DELAY == 100
API_RETRY_COUNT == 3
API_TIMEOUT == 10000

DEFAULT_SYMBOLS ==
    <<"AAPL", "GOOGL", "MSFT", "TSLA", "AMZN", "META", "NVDA", "NFLX">>

DEMO_STOCKS == <<
    [symbol |-> "AAPL",  price |-> 17543],
    [symbol |-> "GOOGL", price |-> 14256],
    [symbol |-> "MSFT",  price |-> 37885],
    [symbol |-> "TSLA",  price |-> 24842],
    [symbol |-> "AMZN",  price |-> 15558],
    [symbol |-> "META",  price |-> 48509],
    [symbol |-> "NVDA",  price |-> 87528],
    [symbol |-> "NFLX",  price |-> 61204] >>

DEMO_PROFILES ==
    [s \in Range(DEFAULT_SYMBOLS) |->
        [symbol |-> s,
         name |-> CASE s = "AAPL"  -> "Apple Inc."
                    [] s = "GOOGL" -> "Alphabet Inc."
                    [] s = "MSFT"  -> "Microsoft Corporation"
                    [] s = "TSLA"  -> "Tesla, Inc."
                    [] s = "AMZN"  -> "Amazon.com, Inc."
                    [] s = "META"  -> "Meta Platforms, Inc."
                    [] s = "NVDA"  -> "NVIDIA Corporation"
                    [] OTHER       -> "Netflix, Inc."]]

ERROR_MESSAGES ==
    [API_KEY_MISSING |-> "API key not found. Please add REACT_APP_FINNHUB_API_KEY to your .env file",
     FETCH_FAILED |-> "Failed to fetch stock data. Please check your connection and try again.",
     RATE_LIMIT |-> "Rate limit exceeded. Please wait a moment before trying again.",
     INVALID_SYMBOL |-> "Invalid stock symbol. Please enter a valid symbol."]

----------------------------------------------------------------------------
(* Results of one transport call, as its caller sees them.  The transport  *)
(* itself (attempts, backoff, timeout) is the state machine further down.  *)

\* errors fetchWithRetry raises when the signal it was given is not aborted
TransportErrors == {"RateLimitError", "FetchFailed", "HttpError403"}

\* getStockQuote: a quote, or an error (transport error, or invalid data)
QuoteOutcomes ==
    [kind : {"data"}, c : ProviderPrices] \cup [kind : TransportErrors]

\* getCompanyProfile: the provider's name (possibly missing), or an error
ProviderNames == {"", "Corp"}
ProfileOutcomes ==
    [kind : {"data"}, name : ProviderNames] \cup [kind : {"FetchFailed"}]

StockQuote(symbol, data) == [symbol |-> symbol, price |-> data.c]

\* getStockQuote raises on data.c <= 0, so the result is the quote or nothing
getStockQuote(symbol, o) ==
    IF o.kind = "data" /\ o.c > 0
    THEN [threw |-> FALSE, quote |-> StockQuote(symbol, o)]
    ELSE [threw |-> TRUE,
          err |-> IF o.kind = "data" THEN "InvalidData" ELSE o.kind]

MinimalProfile(symbol) == [symbol |-> symbol, name |-> symbol]

\* getCompanyProfile never raises: data.name || symbol, minimal profile on error
getCompanyProfile(symbol, o) ==
    IF o.kind = "data"
    THEN [symbol |-> symbol, name |-> IF o.name = "" THEN symbol ELSE o.name]
    ELSE MinimalProfile(symbol)

----------------------------------------------------------------------------
(* useStockData *)

IdleCycle(syms) ==
    [pc |-> "start", syms |-> syms, i |-> 1, sig |-> 0, results |-> <<>>,
     valid |-> <<>>, profs |-> EmptyMap, lastErr |-> "none", overlap |-> FALSE,
     fetched |-> <<>>, failed |-> {}, qlog |-> <<>>, plog |-> <<>>]

World ==
    [cycles |-> cycles, stocks |-> stocks, profiles |-> profiles,
     loading |-> loading, refreshing |-> refreshing, requests |-> requests,
     ref |-> abortControllerRef, aborted |-> aborted]

Commit(w) ==
    /\ cycles' = w.cycles
    /\ stocks' = w.stocks
    /\ profiles' = w.profiles
    /\ loading' = w.loading
    /\ refreshing' = w.refreshing
    /\ requests' = w.requests
    /\ abortControllerRef' = w.ref
    /\ aborted' = w.aborted

Latest(w) == Len(w.cycles)

\* what a batch pass does, in order: sleep(delayMs), or the call of
\* getStockQuote / getCompanyProfile for a symbol
Sleep(delayMs) == [op |-> "sleep", ms |-> delayMs, symbol |-> NULL]
Call(symbol) == [op |-> "call", ms |-> 0, symbol |-> symbol]

\* the fetch for symbols[i] of the quote pass has ended; ok: with a quote
\* whose price is positive
Fetched(w, c, ok) == [w EXCEPT !.cycles[c].fetched = Append(@, ok)]

\* the fetch for symbols[i] of the profile pass has failed
Failed(w, c, symbol) == [w EXCEPT !.cycles[c].failed = @ \cup {symbol}]

Request(w, c, pass, symbol) ==
    [cyc |-> c, pass |-> pass, symbol |-> symbol, stale |-> c < Latest(w)]

\* as FinishCycle, but without setRefreshing(false)
FinishCycle_KeepsRefreshing(w, c) ==
    [w EXCEPT !.profiles = w.cycles[c].profs,
              !.loading = FALSE,
              !.cycles[c].pc = "done"]

\* setProfiles(profileResults); finally { setLoading(false); setRefreshing(false) }
FinishCycle(w, c) ==
    [w EXCEPT !.profiles = w.cycles[c].profs,
              !.loading = FALSE,
              !.refreshing = FALSE,
              !.cycles[c].pc = "done"]

\* getBatchCompanyProfiles after symbols[i] has been handled: next symbol or return
AfterProfile(w, c) ==
    LET cy == w.cycles[c] IN
    IF cy.i < Len(cy.valid)
    THEN [w EXCEPT !.cycles[c].i = cy.i + 1, !.cycles[c].pc = "profSleep",
                   !.cycles[c].plog = Append(@, Sleep(REQUEST_DELAY))]
    ELSE FinishCycle(w, c)

\* getCompanyProfile(symbols[i], signal): fetch rejects at once on an aborted signal
AttemptProfile(w, c) ==
    LET cy == w.cycles[c]
        sym == cy.valid[cy.i].symbol
        w1 == [w EXCEPT !.cycles[c].plog = Append(@, Call(sym))]
    IN  IF cy.sig \in w.aborted
        THEN AfterProfile(
                 [Failed(w1, c, sym) EXCEPT !.cycles[c].profs =
                               MapSet(cy.profs, sym, MinimalProfile(sym))], c)
        ELSE [w1 EXCEPT !.cycles[c].pc = "profFetch",
                        !.requests = @ \cup {Request(w, c, "profile", sym)}]

\* as StartProfiles, but profiles are requested for every tracked symbol
StartProfiles_EverySymbol(w, c) ==
    LET cy == w.cycles[c]
        validStocks == SelectSeq(cy.results, LAMBDA q : q.price > 0)
        every == [k \in 1..Len(cy.syms) |-> [symbol |-> cy.syms[k], price |-> 1]]
        w1 == [w EXCEPT !.stocks = validStocks,
                        !.cycles[c].valid = every,
                        !.cycles[c].profs = EmptyMap,
                        !.cycles[c].i = 1,
                        !.cycles[c].sig = w.ref]
    IN  IF every = <<>> THEN FinishCycle(w1, c) ELSE AttemptProfile(w1, c)

\* lines 76-85: filter, setStocks, call getBatchCompanyProfiles with the
\* signal of the controller abortControllerRef holds now
StartProfiles(w, c) ==
    LET cy == w.cycles[c]
        validStocks == SelectSeq(cy.results, LAMBDA q : q.price > 0)
        w1 == [w EXCEPT !.stocks = validStocks,
                        !.cycles[c].valid = validStocks,
                        !.cycles[c].profs = EmptyMap,
                        !.cycles[c].i = 1,
                        !.cycles[c].sig = w.ref]
    IN  IF validStocks = <<>> THEN FinishCycle(w1, c) ELSE AttemptProfile(w1, c)

\* as AfterQuote, but the next symbol is fetched without a pacing delay
AfterQuote_NoPacing(w, c) ==
    LET cy == w.cycles[c] IN
    IF cy.i < Len(cy.syms)
    THEN [w EXCEPT !.cycles[c].i = cy.i + 1, !.cycles[c].pc = "quoteSleep"]
    ELSE StartProfiles(w, c)

\* getBatchStockQuotes after symbols[i] has been handled: next symbol or return
AfterQuote(w, c) ==
    LET cy == w.cycles[c] IN
    IF cy.i < Len(cy.syms)
    THEN [w EXCEPT !.cycles[c].i = cy.i + 1, !.cycles[c].pc = "quoteSleep",
                   !.cycles[c].qlog = Append(@, Sleep(REQUEST_DELAY))]
    ELSE StartProfiles(w, c)

\* getStockQuote(symbols[i], signal): fetch rejects at once on an aborted
\* signal, the batch logs the error and goes on
AttemptQuote(w, c) ==
    LET cy == w.cycles[c]
        w1 == [w EXCEPT !.cycles[c].qlog = Append(@, Call(cy.syms[cy.i]))]
    IN  IF cy.sig \in w.aborted
        THEN AfterQuote(Fetched(w1, c, FALSE), c)
        ELSE [w1 EXCEPT !.cycles[c].pc = "quoteFetch",
                        !.requests = @ \cup {Request(w, c, "quote", cy.syms[cy.i])}]

\* as QuoteFailed, but the error leaves getBatchStockQuotes and ends the cycle
QuoteFailed_Propagates(w, c, err) ==
    FinishCycle([w EXCEPT !.cycles[c].lastErr = err], c)

\* the per-symbol catch of getBatchStockQuotes (lines 234-237)
QuoteFailed(w, c, err) ==
    AfterQuote([w EXCEPT !.cycles[c].lastErr = err], c)

\* as QuoteSettled, but every quote response is pushed, whatever its price
QuoteSettled_Unfiltered(w, c, o) ==
    LET cy == w.cycles[c] IN
    IF o.kind # "data" THEN QuoteFailed(w, c, o.kind)
    ELSE AfterQuote(
             [w EXCEPT !.cycles[c].results =
                           Append(cy.results, StockQuote(cy.syms[cy.i], o))], c)

\* lines 228-233: push the quote when price > 0
QuoteSettled(w, c, o) ==
    LET cy == w.cycles[c]
        r == getStockQuote(cy.syms[cy.i], o)
    IN  IF r.threw
        THEN QuoteFailed(w, c, r.err)
        ELSE AfterQuote(
                 [w EXCEPT !.cycles[c].results =
                               IF r.quote.price > 0 THEN Append(cy.results, r.quote)
                               ELSE cy.results], c)

\* as ProfileSettled, but a failed fetch leaves no entry for the symbol
ProfileSettled_SkipFailed(w, c, o) ==
    LET cy == w.cycles[c]
        sym == cy.valid[cy.i].symbol
    IN  IF o.kind # "data" THEN AfterProfile(w, c)
        ELSE AfterProfile(
                 [w EXCEPT !.cycles[c].profs =
                               MapSet(cy.profs, sym, getCompanyProfile(sym, o))], c)

\* line 260-261: profiles.set(symbols[i], profile)
ProfileSettled(w, c, o) ==
    LET cy == w.cycles[c]
        sym == cy.valid[cy.i].symbol
    IN  AfterProfile(
            [w EXCEPT !.cycles[c].profs =
                          MapSet(cy.profs, sym, getCompanyProfile(sym, o))], c)

\* the invocations that have not returned yet
InFlight(w) == {c \in 1..Len(w.cycles) : w.cycles[c].pc # "done"}

\* as DemoCycle, but the demo quotes are not filtered by the tracked list
DemoCycle_Unfiltered(w, syms) ==
    LET demoProfiles ==
            [s \in Range(syms) \cap DOMAIN DEMO_PROFILES |-> DEMO_PROFILES[s]]
    IN  [w EXCEPT !.cycles = Append(@, [IdleCycle(syms) EXCEPT
                                            !.pc = "done",
                                            !.valid = DEMO_STOCKS,
                                            !.profs = demoProfiles]),
                  !.stocks = DEMO_STOCKS,
                  !.profiles = demoProfiles,
                  !.loading = FALSE,
                  !.refreshing = FALSE]

\* lines 42-60: the demo branch of fetchStockData
DemoCycle(w, syms) ==
    LET demoStocks == SelectSeq(DEMO_STOCKS, LAMBDA q : q.symbol \in Range(syms))
        demoProfiles ==
            [s \in Range(syms) \cap DOMAIN DEMO_PROFILES |-> DEMO_PROFILES[s]]
    IN  [w EXCEPT !.cycles = Append(@, [IdleCycle(syms) EXCEPT
                                            !.pc = "done",
                                            !.valid = demoStocks,
                                            !.profs = demoProfiles]),
                  !.stocks = demoStocks,
                  !.profiles = demoProfiles,
                  !.loading = FALSE,
                  !.refreshing = FALSE]

\* lines 62-74: abort the previous controller, create one, start the quote pass
LiveCycle(w, syms) ==
    LET c == Len(w.cycles) + 1
        w1 == [w EXCEPT !.aborted = IF w.ref = 0 THEN @ ELSE @ \cup {w.ref},
                        !.ref = c,
                        !.cycles = Append(@, [IdleCycle(syms) EXCEPT
                                                  !.sig = c,
                                                  !.overlap = InFlight(w) # {}])]
    IN  IF syms = <<>> THEN StartProfiles(w1, c) ELSE AttemptQuote(w1, c)

\* fetchStockData, up to its first await on the network
fetchStockData(w, syms) ==
    IF ~FINNHUB_API_KEY THEN DemoCycle(w, syms) ELSE LiveCycle(w, syms)

\* no rejection by abort() is waiting to be delivered
Quiescent ==
    \A c \in 1..Len(cycles) :
        cycles[c].pc \in {"quoteFetch", "profFetch"} => cycles[c].sig \notin aborted

CanStart == wlMounted /\ Quiescent /\ Len(cycles) < MaxCycles

\* the effect of lines 133-144, first run
InitialFetch ==
    /\ CanStart
    /\ cycles = <<>>
    /\ error' = NULL
    /\ Commit(fetchStockData(World, trackedSymbols))
    /\ UNCHANGED <<chVars, tx, FINNHUB_API_KEY, appVars, wlMounted, trackedSymbols>>

\* as handleRefresh, but with setLoading(true) beside setRefreshing(true)
handleRefresh_SetsLoading ==
    /\ CanStart
    /\ cycles # <<>>
    /\ error' = NULL
    /\ Commit(fetchStockData([World EXCEPT !.refreshing = TRUE, !.loading = TRUE],
                             trackedSymbols))
    /\ UNCHANGED <<chVars, tx, FINNHUB_API_KEY, appVars, wlMounted, trackedSymbols>>

\* handleRefresh (lines 103-106): the manual refresh and the interval tick
handleRefresh ==
    /\ CanStart
    /\ cycles # <<>>
    /\ error' = NULL
    /\ Commit(fetchStockData([World EXCEPT !.refreshing = TRUE], trackedSymbols))
    /\ UNCHANGED <<chVars, tx, FINNHUB_API_KEY, appVars, wlMounted, trackedSymbols>>

\* the cleanup of lines 136-143 followed by the effect, on the hook's state
TrackedEffects(syms) ==
    /\ error' = NULL
    /\ trackedSymbols' = syms
    /\ Commit(fetchStockData(
           [World EXCEPT !.aborted = IF abortControllerRef = 0 THEN @
                                     ELSE @ \cup {abortControllerRef}], syms))

\* the hook renders again after trackedSymbols changed
SymbolsChanged(syms) ==
    /\ TrackedEffects(syms)
    /\ UNCHANGED <<chVars, tx, FINNHUB_API_KEY, appVars, wlMounted>>

\* addSymbol (lines 108-113)
addSymbol(symbol) ==
    /\ CanStart
    /\ cycles # <<>>
    /\ Len(trackedSymbols) < MaxTracked
    /\ symbol \notin Range(trackedSymbols)
    /\ SymbolsChanged(Append(trackedSymbols, symbol))

\* removeSymbol (lines 115-117)
removeSymbol(symbol) ==
    /\ CanStart
    /\ cycles # <<>>
    /\ SymbolsChanged(SelectSeq(trackedSymbols, LAMBDA s : s # symbol))

\* the pacing delay before symbols[i] of the quote pass has elapsed
QuoteSleepDone(c) ==
    /\ Quiescent
    /\ cycles[c].pc = "quoteSleep"
    /\ Commit(AttemptQuote(World, c))
    /\ UNCHANGED <<chVars, tx, FINNHUB_API_KEY, appVars, wlMounted, trackedSymbols, error>>

\* the transport call for symbols[i] of the quote pass ends
QuoteResolve(c, o) ==
    /\ Quiescent
    /\ cycles[c].pc = "quoteFetch"
    /\ Commit(QuoteSettled(Fetched(World, c, o.kind = "data" /\ o.c > 0), c, o))
    /\ UNCHANGED <<chVars, tx, FINNHUB_API_KEY, appVars, wlMounted, trackedSymbols, error>>

\* the pending quote request is rejected with AbortError
QuoteAbort(c) ==
    /\ cycles[c].pc = "quoteFetch"
    /\ cycles[c].sig \in aborted
    /\ Commit(AfterQuote(Fetched(World, c, FALSE), c))
    /\ UNCHANGED <<chVars, tx, FINNHUB_API_KEY, appVars, wlMounted, trackedSymbols, error>>

ProfSleepDone(c) ==
    /\ Quiescent
    /\ cycles[c].pc = "profSleep"
    /\ Commit(AttemptProfile(World, c))
    /\ UNCHANGED <<chVars, tx, FINNHUB_API_KEY, appVars, wlMounted, trackedSymbols, error>>

ProfResolve(c, o) ==
    /\ Quiescent
    /\ cycles[c].pc = "profFetch"
    /\ Commit(ProfileSettled(
           IF o.kind = "data" THEN World
           ELSE Failed(World, c, cycles[c].valid[cycles[c].i].symbol), c, o))
    /\ UNCHANGED <<chVars, tx, FINNHUB_API_KEY, appVars, wlMounted, trackedSymbols, error>>

\* the pending profile request is rejected with AbortError: minimal profile
ProfAbort(c) ==
    /\ cycles[c].pc = "profFetch"
    /\ cycles[c].sig \in aborted
    /\ Commit(ProfileSettled(
           Failed(World, c, cycles[c].valid[cycles[c].i].symbol), c,
           [kind |-> "FetchFailed"]))
    /\ UNCHANGED <<chVars, tx, FINNHUB_API_KEY, appVars, wlMounted, trackedSymbols, error>>

\* the state of the hook after its first render, before its effects ran
WatchHookInit(symbols) ==
    /\ trackedSymbols = symbols
    /\ stocks = <<>>
    /\ profiles = EmptyMap
    /\ loading = TRUE
    /\ error = NULL
    /\ refreshing = FALSE
    /\ abortControllerRef = 0
    /\ aborted = {}
    /\ cycles = <<>>
    /\ requests = {}

WatchNext ==
    \/ InitialFetch
    \/ handleRefresh
    \/ \E s \in Tickers : addSymbol(s)
    \/ \E s \in Tickers : removeSymbol(s)
    \/ \E c \in 1..Len(cycles) : QuoteSleepDone(c)
    \/ \E c \in 1..Len(cycles) : \E o \in QuoteOutcomes : QuoteResolve(c, o)
    \/ \E c \in 1..Len(cycles) : QuoteAbort(c)
    \/ \E c \in 1..Len(cycles) : ProfSleepDone(c)
    \/ \E c \in 1..Len(cycles) : \E o \in ProfileOutcomes : ProfResolve(c, o)
    \/ \E c \in 1..Len(cycles) : ProfAbort(c)

----------------------------------------------------------------------------
(* generateDemoChartData *)

CHART_POINTS == 30

\* the base prices of the demo symbols, in cents (lines 104-113)
demoPrices ==
    [s \in Range(DEFAULT_SYMBOLS) |->
        CASE s = "AAPL"  -> 17500
          [] s = "GOOGL" -> 14200
          [] s = "MSFT"  -> 37800
          [] s = "TSLA"  -> 24800
          [] s = "AMZN"  -> 15500
          [] s = "META"  -> 48500
          [] s = "NVDA"  -> 87500
          [] OTHER       -> 61200]

\* Math.sin(i * 0.2) * 0.01 for i = 0..29, in units of 1/10000, rounded
Trend ==
    <<0, 20, 39, 56, 72, 84, 93, 99, 100, 97, 91, 81, 68, 52, 33, 14, -6, -26,
      -44, -61, -76, -87, -95, -99, -100, -96, -88, -77, -63, -46>>

\* the draws of Math.random() of one call: rnd.base scales the base price of
\* an unknown symbol (100 + r * 200 dollars), rnd.noise is (r - 0.5) * 0.015
\* in units of 1/10000, the same for every point here
RandomDraws == [base : {10000, 29999}, noise : {-75, 74}]

\* Dates are day numbers, counted from the local day of the call: 0 is today.
\* The offset of local time from UTC, in hours, on local day d at the wall
\* time of the call
OffsetAt(d) == IF d >= clock.changeDay THEN clock.after ELSE clock.before

\* lines 118-119: new Date(), then setDate(getDate() - i): local day 0 - i at
\* the same wall time; line 128: toISOString().split('T')[0] is the UTC date
\* of that instant
ISODate(d) == d + ((clock.hour - OffsetAt(d)) \div 24)

\* the UTC date of the instant of the call
CurrentDate == ISODate(0)

generateDemoChartData(symbol, rnd) ==
    LET basePrice == IF symbol \in DOMAIN demoPrices THEN demoPrices[symbol]
                     ELSE rnd.base
        point(k) ==
            LET i == CHART_POINTS - k
            IN  [date |-> ISODate(0 - i),
                 price |-> (basePrice * (10000 + Trend[i + 1] + rnd.noise) + 5000)
                               \div 10000]
    IN  [symbol |-> symbol, prices |-> [k \in 1..CHART_POINTS |-> point(k)]]

----------------------------------------------------------------------------
(* getHistoricalData and useChartData *)

\* the AbortError a fetch raises when its signal is aborted
AbortError ==
    [name |-> "AbortError", message |-> "The operation was aborted.", status |-> 0]

NoError == [name |-> "", message |-> "", status |-> 0]

APIError(message, status) ==
    [name |-> "APIError", message |-> message, status |-> status]

\* what fetchWithRetry(url, 1, signal) ends with: the candles of the
\* response (n closing prices, 0 for 'no_data'), or an error
HistoryOutcomes ==
    [kind : {"data"}, n : {0, 2}] \cup [kind : TransportErrors \cup {"AbortError"}]

\* lines 165-170: the candles as a series
CandleSeries(n) == [k \in 1..n |-> [date |-> k - n, price |-> 17500 + k]]

\* as getHistoricalData, but the error of the last attempt is raised again,
\* wrapped in an APIError that keeps its message
getHistoricalData_Rethrow(symbol, o) ==
    [threw |-> o.kind # "data",
     err |-> IF o.kind = "AbortError" THEN APIError(AbortError.message, 0)
             ELSE IF o.kind = "HttpError403" THEN APIError("API request failed", 403)
             ELSE APIError(o.kind, 0),
     data |-> [symbol |-> symbol,
               prices |-> IF o.kind = "data" THEN CandleSeries(o.n) ELSE <<>>]]

\* getHistoricalData, given how its last attempt ended: every error of an
\* attempt is caught (lines 172-174, 192-194), an empty series is returned
getHistoricalData(symbol, o) ==
    [threw |-> FALSE,
     err |-> NoError,
     data |-> [symbol |-> symbol,
               prices |-> IF o.kind = "data" THEN CandleSeries(o.n) ELSE <<>>]]

\* chartData = null
NoChartData == [symbol |-> NULL, prices |-> <<>>]

LimitedData(symbol) == "Limited historical data available for " \o symbol
PaidPlan(symbol) == "Historical data requires paid plan for " \o symbol

ChartWorld ==
    [calls |-> chartCalls, chartData |-> chartData, loading |-> chartLoading,
     error |-> chartError, isDemoData |-> chartIsDemoData]

ChartCommit(w) ==
    /\ chartCalls' = w.calls
    /\ chartData' = w.chartData
    /\ chartLoading' = w.loading
    /\ chartError' = w.error
    /\ chartIsDemoData' = w.isDemoData

\* a request of call k has ended, with "points", "empty", or an error: the
\* answer of the call is what all its requests so far ended with, or "mixed"
Answered(w, k, o) ==
    LET a == IF o.kind # "data" THEN o.kind
             ELSE IF o.n > 0 THEN "points" ELSE "empty"
    IN  [w EXCEPT !.calls[k].answer = IF @ \in {"none", a} THEN a ELSE "mixed"]

StillCurrent_Always(targetSymbol) == TRUE

\* line 188, 203, 214: is this still the current symbol
StillCurrent(targetSymbol) == currentSymbolRef = targetSymbol

\* as ChartSettled, but an empty series is shown as it is
ChartSettled_NoFallback(w, k, r, rnd) ==
    LET targetSymbol == w.calls[k].target
        done == [w EXCEPT !.calls[k].pc = "done",
                          !.calls[k].discarded = ~StillCurrent(targetSymbol)]
    IN  IF ~StillCurrent(targetSymbol) THEN done
        ELSE [done EXCEPT !.chartData = r.data,
                          !.isDemoData = FALSE,
                          !.loading = FALSE]

\* lines 185-217 of fetchChartData: what follows the await of getHistoricalData
ChartSettled(w, k, r, rnd) ==
    LET targetSymbol == w.calls[k].target
        done == [w EXCEPT !.calls[k].pc = "done",
                          !.calls[k].discarded = ~StillCurrent(targetSymbol)]
    IN  IF ~StillCurrent(targetSymbol) THEN done
        ELSE IF r.threw
        THEN IF r.err.name # "AbortError"
             THEN [done EXCEPT
                      !.error = IF r.err.status = 403 THEN PaidPlan(targetSymbol)
                                ELSE IF r.err.message # "" THEN r.err.message
                                ELSE "Failed to fetch chart data",
                      !.chartData = [symbol |-> targetSymbol, prices |-> <<>>],
                      !.loading = FALSE]
             ELSE [done EXCEPT !.loading = FALSE]
        ELSE IF r.data.prices = <<>>
        THEN [done EXCEPT !.chartData = generateDemoChartData(targetSymbol, rnd),
                          !.isDemoData = TRUE,
                          !.error = LimitedData(targetSymbol),
                          !.loading = FALSE]
        ELSE [done EXCEPT !.chartData = r.data,
                          !.isDemoData = FALSE,
                          !.loading = FALSE]

\* as ChartDemoSettled, but the series is not marked as demo data
ChartDemoSettled_Unmarked(w, k, rnd) ==
    LET targetSymbol == w.calls[k].target
        done == [w EXCEPT !.calls[k].pc = "done",
                          !.calls[k].discarded = ~StillCurrent(targetSymbol)]
    IN  IF StillCurrent(targetSymbol)
        THEN [done EXCEPT !.chartData = generateDemoChartData(targetSymbol, rnd),
                          !.loading = FALSE]
        ELSE done

\* lines 169-177: after the simulated delay of the demo branch
ChartDemoSettled(w, k, rnd) ==
    LET targetSymbol == w.calls[k].target
        done == [w EXCEPT !.calls[k].pc = "done",
                          !.calls[k].discarded = ~StillCurrent(targetSymbol)]
    IN  IF StillCurrent(targetSymbol)
        THEN [done EXCEPT !.chartData = generateDemoChartData(targetSymbol, rnd),
                          !.isDemoData = TRUE,
                          !.loading = FALSE]
        ELSE done

ChartQuiescent ==
    \A k \in 1..Len(chartCalls) :
        chartCalls[k].pc \in {"fetch1", "fetch2"} => chartCalls[k].sig \notin chartAborted

\* the state and the refs of the hook, for the handlers that call
\* fetchChartData or clearData among other things
ChartHook ==
    [calls |-> chartCalls, chartData |-> chartData, loading |-> chartLoading,
     error |-> chartError, isDemoData |-> chartIsDemoData,
     ref |-> chartAbortRef, aborted |-> chartAborted, current |-> currentSymbolRef]

ChartHookCommit(h) ==
    /\ ChartCommit(h)
    /\ chartAbortRef' = h.ref
    /\ chartAborted' = h.aborted
    /\ currentSymbolRef' = h.current

\* as StartChartCall, but without setLoading(true)
StartChartCall_NoLoading(h, targetSymbol) ==
    [h EXCEPT !.error = NULL,
              !.aborted = IF h.ref = 0 THEN @ ELSE @ \cup {h.ref},
              !.ref = Len(h.calls) + 1,
              !.current = targetSymbol,
              !.calls = Append(@,
                  [pc |-> IF FINNHUB_API_KEY THEN "fetch1" ELSE "demoDelay",
                   target |-> targetSymbol,
                   sig |-> Len(h.calls) + 1,
                   discarded |-> FALSE,
                   rejected |-> FALSE,
                   sent |-> IF FINNHUB_API_KEY THEN 1 ELSE 0,
                   answer |-> "none"])]

\* lines 151-183 on the state h of the hook: fetchChartData up to its first await
StartChartCall(h, targetSymbol) ==
    [h EXCEPT !.loading = TRUE,
              !.error = NULL,
              !.aborted = IF h.ref = 0 THEN @ ELSE @ \cup {h.ref},
              !.ref = Len(h.calls) + 1,
              !.current = targetSymbol,
              !.calls = Append(@,
                  [pc |-> IF FINNHUB_API_KEY THEN "fetch1" ELSE "demoDelay",
                   target |-> targetSymbol,
                   sig |-> Len(h.calls) + 1,
                   discarded |-> FALSE,
                   rejected |-> FALSE,
                   sent |-> IF FINNHUB_API_KEY THEN 1 ELSE 0,
                   answer |-> "none"])]

\* fetchChartData(targetSymbol), called by the user of the hook
fetchChartData(targetSymbol) ==
    /\ chartMounted /\ ChartQuiescent
    /\ Len(chartCalls) < MaxChartCalls
    /\ ChartHookCommit(StartChartCall(ChartHook, targetSymbol))
    /\ UNCHANGED chartMounted
    /\ UNCHANGED <<wlVars, tx, FINNHUB_API_KEY, appVars>>

\* as ClearChart, but without setIsDemoData(false)
ClearChart_KeepsDemoFlag(h) ==
    [h EXCEPT !.chartData = NoChartData,
              !.error = NULL,
              !.loading = FALSE,
              !.current = NULL,
              !.aborted = IF h.ref = 0 THEN @ ELSE @ \cup {h.ref}]

\* lines 220-230 on the state h of the hook
ClearChart(h) ==
    [h EXCEPT !.chartData = NoChartData,
              !.error = NULL,
              !.loading = FALSE,
              !.isDemoData = FALSE,
              !.current = NULL,
              !.aborted = IF h.ref = 0 THEN @ ELSE @ \cup {h.ref}]

\* as clearData, but without setLoading(false)
clearData_KeepsLoading ==
    /\ chartMounted /\ ChartQuiescent
    /\ ChartHookCommit([ClearChart(ChartHook) EXCEPT !.loading = chartLoading])
    /\ UNCHANGED chartMounted
    /\ UNCHANGED <<wlVars, tx, FINNHUB_API_KEY, appVars>>

\* clearData, called by the user of the hook
clearData ==
    /\ chartMounted /\ ChartQuiescent
    /\ ChartHookCommit(ClearChart(ChartHook))
    /\ UNCHANGED chartMounted
    /\ UNCHANGED <<wlVars, tx, FINNHUB_API_KEY, appVars>>

\* the 500 ms of the demo branch have elapsed
ChartDelayDone(k, rnd) ==
    /\ ChartQuiescent
    /\ chartCalls[k].pc = "demoDelay"
    /\ ChartCommit(ChartDemoSettled(ChartWorld, k, rnd))
    /\ UNCHANGED <<chartMounted, chartAbortRef, chartAborted, currentSymbolRef>>
    /\ UNCHANGED <<wlVars, tx, FINNHUB_API_KEY, appVars>>

\* the first attempt of getHistoricalData ends: its series when it has
\* points, the second attempt otherwise
ChartFirstAttempt(k, o, rnd) ==
    /\ ChartQuiescent
    /\ chartCalls[k].pc = "fetch1"
    /\ o.kind # "AbortError"
    /\ IF o.kind = "data" /\ o.n > 0
       THEN ChartCommit(ChartSettled(Answered(ChartWorld, k, o), k,
                getHistoricalData(chartCalls[k].target, o), rnd))
       ELSE ChartCommit([Answered(ChartWorld, k, o) EXCEPT
                            !.calls[k].pc = "fetch2", !.calls[k].sent = @ + 1])
    /\ UNCHANGED <<chartMounted, chartAbortRef, chartAborted, currentSymbolRef>>
    /\ UNCHANGED <<wlVars, tx, FINNHUB_API_KEY, appVars>>

\* the second attempt of getHistoricalData ends
ChartSecondAttempt(k, o, rnd) ==
    /\ ChartQuiescent
    /\ chartCalls[k].pc = "fetch2"
    /\ o.kind # "AbortError"
    /\ ChartCommit(ChartSettled(Answered(ChartWorld, k, o), k,
           getHistoricalData(chartCalls[k].target, o), rnd))
    /\ UNCHANGED <<chartMounted, chartAbortRef, chartAborted, currentSymbolRef>>
    /\ UNCHANGED <<wlVars, tx, FINNHUB_API_KEY, appVars>>

\* the pending request is rejected with AbortError; a second attempt on the
\* aborted signal is rejected at once
ChartAbort(k, rnd) ==
    /\ chartCalls[k].pc \in {"fetch1", "fetch2"}
    /\ chartCalls[k].sig \in chartAborted
    /\ ChartCommit(ChartSettled(
           [Answered(ChartWorld, k, [kind |-> "AbortError"]) EXCEPT
               !.calls[k].rejected = TRUE], k,
           getHistoricalData(chartCalls[k].target, [kind |-> "AbortError"]), rnd))
    /\ UNCHANGED <<chartMounted, chartAbortRef, chartAborted, currentSymbolRef>>
    /\ UNCHANGED <<wlVars, tx, FINNHUB_API_KEY, appVars>>

ChartHookInit ==
    /\ chartData = NoChartData
    /\ chartLoading = FALSE
    /\ chartError = NULL
    /\ chartIsDemoData = FALSE
    /\ chartAbortRef = 0
    /\ chartAborted = {}
    /\ currentSymbolRef = NULL
    /\ chartCalls = <<>>

ChartNext ==
    \/ \E s \in Tickers : fetchChartData(s)
    \/ clearData
    \/ \E k \in 1..Len(chartCalls) : \E rnd \in RandomDraws : ChartDelayDone(k, rnd)
    \/ \E k \in 1..Len(chartCalls) : \E o \in HistoryOutcomes :
           \E rnd \in RandomDraws : ChartFirstAttempt(k, o, rnd)
    \/ \E k \in 1..Len(chartCalls) : \E o \in HistoryOutcomes :
           \E rnd \in RandomDraws : ChartSecondAttempt(k, o, rnd)
    \/ \E k \in 1..Len(chartCalls) : \E rnd \in RandomDraws : ChartAbort(k, rnd)

----------------------------------------------------------------------------
(* StockAPIService.fetchWithRetry: one invocation, attempt by attempt *)

\* how one fetch ends when it is not aborted: a response with an HTTP
\* status, a response whose body is not JSON, or a network error
HttpErrorStatuses == {"403", "500"}
Responses == {"200", "429", "BadJson"} \cup HttpErrorStatuses
StatusCode(status) == IF status = "403" THEN 403 ELSE 500

TxIdle ==
    [pc |-> "idle", retries |-> 0, attempt |-> 0, hasSignal |-> FALSE,
     signalAborted |-> FALSE, timeoutId |-> FALSE, timedOut |-> FALSE,
     requests |-> 0, waits |-> <<>>, responses |-> <<>>, err |-> NoError]

\* as CombinedAborted, but no signal is passed to fetch
CombinedAborted_NoSignal(t) == FALSE

\* line 33: const combinedSignal = signal || controller.signal
CombinedAborted(t) == IF t.hasSignal THEN t.signalAborted ELSE t.timedOut

TxThrow(t, err) == [t EXCEPT !.pc = "threw", !.err = err, !.timeoutId = FALSE]

\* as TxCatch, but the last attempt rethrows whatever it caught
TxCatch_Rethrows(t, err) ==
    IF err.name = "AbortError" \/ t.attempt = t.retries - 1 THEN TxThrow(t, err)
    ELSE [t EXCEPT !.pc = "sleeping", !.timeoutId = FALSE,
                   !.waits = Append(@, 1000)]

\* lines 63-81: the catch block of an attempt; clearTimeout, then rethrow on
\* AbortError and on the last attempt, sleep(1000) otherwise
TxCatch(t, err) ==
    IF err.name = "AbortError" THEN TxThrow(t, err)
    ELSE IF t.attempt = t.retries - 1
    THEN TxThrow(t, IF err.name = "APIError" THEN err
                    ELSE APIError(ERROR_MESSAGES.FETCH_FAILED, 0))
    ELSE [t EXCEPT !.pc = "sleeping", !.timeoutId = FALSE,
                   !.waits = Append(@, 1000)]

\* lines 37-40: fetch on the combined signal; rejected at once when it is aborted
TxFetch(t) ==
    IF CombinedAborted(t) THEN TxCatch(t, AbortError)
    ELSE [t EXCEPT !.pc = "fetching", !.requests = @ + 1]

\* as TxOnResponse, but the wait after a 429 does not grow with the attempt
TxOnResponse_FlatBackoff(t, status) ==
    LET t1 == [t EXCEPT !.timeoutId = FALSE, !.responses = Append(@, status)]
    IN  IF status = "429"
        THEN IF t.attempt < t.retries - 1
             THEN [t1 EXCEPT !.pc = "sleeping", !.waits = Append(@, 1000)]
             ELSE TxCatch(t1, APIError(ERROR_MESSAGES.RATE_LIMIT, 0))
        ELSE IF status \in HttpErrorStatuses
        THEN TxCatch(t1, APIError("API request failed", StatusCode(status)))
        ELSE IF status = "BadJson"
        THEN TxCatch(t1, [name |-> "SyntaxError", message |-> "", status |-> 0])
        ELSE [t1 EXCEPT !.pc = "returned"]

\* lines 42-61: a response has arrived
TxOnResponse(t, status) ==
    LET t1 == [t EXCEPT !.timeoutId = FALSE, !.responses = Append(@, status)]
    IN  IF status = "429"
        THEN IF t.attempt < t.retries - 1
             THEN [t1 EXCEPT !.pc = "sleeping",
                             !.waits = Append(@, 1000 * (t.attempt + 1))]
             ELSE TxCatch(t1, APIError(ERROR_MESSAGES.RATE_LIMIT, 0))
        ELSE IF status \in HttpErrorStatuses
        THEN TxCatch(t1, APIError("API request failed", StatusCode(status)))
        ELSE IF status = "BadJson"
        THEN TxCatch(t1, [name |-> "SyntaxError", message |-> "", status |-> 0])
        ELSE [t1 EXCEPT !.pc = "returned"]

\* fetchWithRetry(url, retries, signal), lines 20-40, up to the first await
TxCall(retries, hasSignal, signalAborted) ==
    /\ tx.pc = "idle"
    /\ hasSignal \/ ~signalAborted
    /\ LET t == [TxIdle EXCEPT !.retries = retries, !.hasSignal = hasSignal,
                               !.signalAborted = signalAborted]
       IN  tx' = IF ~FINNHUB_API_KEY
                 THEN TxThrow(t, APIError(ERROR_MESSAGES.API_KEY_MISSING, 0))
                 ELSE TxFetch([t EXCEPT !.timeoutId = TRUE])
    /\ UNCHANGED <<wlVars, chVars, FINNHUB_API_KEY, appVars>>

\* the pending fetch ends with a response
TxResponse(status) ==
    /\ tx.pc = "fetching"
    /\ tx' = TxOnResponse(tx, status)
    /\ UNCHANGED <<wlVars, chVars, FINNHUB_API_KEY, appVars>>

\* the pending fetch is rejected by the network
TxNetworkError ==
    /\ tx.pc = "fetching"
    /\ tx' = TxCatch([tx EXCEPT !.responses = Append(@, "NetworkError")],
                     [name |-> "TypeError", message |-> "Failed to fetch", status |-> 0])
    /\ UNCHANGED <<wlVars, chVars, FINNHUB_API_KEY, appVars>>

\* a sleep of the retry loop has elapsed: next attempt
TxSleepDone ==
    /\ tx.pc = "sleeping"
    /\ tx' = TxFetch([tx EXCEPT !.attempt = @ + 1])
    /\ UNCHANGED <<wlVars, chVars, FINNHUB_API_KEY, appVars>>

\* line 30: the timer set for API_TIMEOUT fires, controller.abort()
TxTimeout ==
    /\ tx.timeoutId
    /\ LET t == [tx EXCEPT !.timeoutId = FALSE, !.timedOut = TRUE]
       IN  tx' = IF t.pc = "fetching" /\ CombinedAborted(t)
                 THEN TxCatch(t, AbortError) ELSE t
    /\ UNCHANGED <<wlVars, chVars, FINNHUB_API_KEY, appVars>>

\* the caller aborts the signal it passed
TxSignalAbort ==
    /\ tx.hasSignal /\ ~tx.signalAborted
    /\ tx.pc \in {"fetching", "sleeping"}
    /\ LET t == [tx EXCEPT !.signalAborted = TRUE]
       IN  tx' = IF t.pc = "fetching" /\ CombinedAborted(t)
                 THEN TxCatch(t, AbortError) ELSE t
    /\ UNCHANGED <<wlVars, chVars, FINNHUB_API_KEY, appVars>>

TransportNext ==
    \/ \E retries \in 1..MaxRetries : \E hasSignal, signalAborted \in BOOLEAN :
           TxCall(retries, hasSignal, signalAborted)
    \/ \E status \in Responses : TxResponse(status)
    \/ TxNetworkError
    \/ TxSleepDone
    \/ TxTimeout
    \/ TxSignalAbort

----------------------------------------------------------------------------
(* The environment and the dashboard, at rest *)

\* the wall clock reads hour o'clock; local time is UTC + before hours on
\* the local days before changeDay and UTC + after hours from changeDay on
\* (days are counted from the local day of the call: 0 is today)
NoonUTC == [hour |-> 12, before |-> 0, after |-> 0, changeDay |-> 0]

\* an item of localStorage: absent (getItem returns null), or its text
NoItem == [present |-> FALSE, text |-> <<>>]
Item(text) == [present |-> TRUE, text |-> text]

\* lines 100-105 of formatters.ts: the keys
STORAGE_KEYS ==
    [TRACKED_SYMBOLS |-> "stock_dashboard_tracked_symbols",
     SELECTED_STOCK |-> "stock_dashboard_selected_stock"]

EmptyStorage == [k \in {STORAGE_KEYS.TRACKED_SYMBOLS, STORAGE_KEYS.SELECTED_STOCK} |-> NoItem]

\* set: what the latest call of setTrackedSymbols did ("none" before a call,
\* "stored" when setItem returned, "failed" when it threw) and the list it was
\* given; called, value: whether getTrackedSymbols was called since, and the
\* list it returned
NotLoaded == [set |-> "none", list |-> <<>>, called |-> FALSE, value |-> <<>>]

\* the options of a hook at its latest render, whether the effects of its
\* first render ran, whether the latest run of its timer effect returned a
\* cleanup, refreshIntervalRef (0 for null), the interval timers that are set
\* and not cleared, how many were created and how often one has fired
NoTimer ==
    [autoRefresh |-> FALSE, refreshInterval |-> 0, symbol |-> NULL,
     effects |-> FALSE, cleanup |-> FALSE, refreshIntervalRef |-> 0,
     running |-> {}, created |-> 0, ticks |-> 0]

\* the state of StockDashboard and the message of the toast it showed last
NoDashboard ==
    [mounted |-> FALSE, selectedStock |-> NULL, trackedSymbols |-> <<>>,
     toast |-> NULL]

AppIdle ==
    /\ clock = NoonUTC
    /\ localStorage = EmptyStorage
    /\ series = NoChartData
    /\ loaded = NotLoaded
    /\ wlTimer = NoTimer
    /\ chTimer = NoTimer
    /\ dash = NoDashboard
    /\ updaters = <<>>

----------------------------------------------------------------------------
(* Calls of generateDemoChartData, at any time of day in a few time zones *)

Hours == {0, 1, 12, 19, 23}
Offsets == -5..2

\* no change of offset in the 30 days, or daylight saving time beginning or
\* ending on one of them
Clocks ==
    {c \in [hour : Hours, before : Offsets, after : Offsets,
            changeDay : {-29, -10, 0}] :
        /\ c.after - c.before \in {-1, 0, 1}
        /\ c.after = c.before => c.changeDay = 0}

Generate(symbol, rnd) ==
    /\ series' = generateDemoChartData(symbol, rnd)
    /\ UNCHANGED <<FINNHUB_API_KEY, wlVars, chVars, tx>>
    /\ UNCHANGED <<clock, localStorage, loaded, wlTimer, chTimer, dash, updaters>>

GeneratorInit ==
    /\ FINNHUB_API_KEY \in BOOLEAN
    /\ wlMounted = FALSE
    /\ WatchHookInit(<<>>)
    /\ chartMounted = FALSE
    /\ ChartHookInit
    /\ tx = TxIdle
    /\ clock \in Clocks
    /\ localStorage = EmptyStorage
    /\ series = NoChartData
    /\ loaded = NotLoaded
    /\ wlTimer = NoTimer
    /\ chTimer = NoTimer
    /\ dash = NoDashboard
    /\ updaters = <<>>

GeneratorNext == \E symbol \in Tickers : \E rnd \in RandomDraws : Generate(symbol, rnd)

GeneratorSpec == GeneratorInit /\ [][GeneratorNext]_vars

----------------------------------------------------------------------------
(* The auto-refresh timers of the two hooks *)

MaxTimers == 3       \* interval timers one hook creates in one run

Intervals == {0, 60000, 300000}

\* setInterval(callback, refreshInterval) with refreshIntervalRef.current set
\* to its id; the callback of the chart hook closes over symbol
SetInterval(t) ==
    [t EXCEPT !.created = @ + 1,
              !.refreshIntervalRef = t.created + 1,
              !.running = @ \cup {[id |-> t.created + 1, symbol |-> t.symbol]},
              !.cleanup = TRUE]

\* clearInterval(refreshIntervalRef.current), when the ref is not null
ClearInterval(t) ==
    [t EXCEPT !.running = {timer \in @ : timer.id # t.refreshIntervalRef}]

TimerCleanup_KeepsTimer(t) == [t EXCEPT !.cleanup = FALSE]

\* the cleanup the latest run of the timer effect returned, if it returned
\* one (useStockData.ts lines 123-127, usePerformanceOptimization.ts 250-254)
TimerCleanup(t) ==
    IF t.cleanup THEN [ClearInterval(t) EXCEPT !.cleanup = FALSE] ELSE t

\* useStockData.ts lines 120-129
WatchTimerEffect(t) ==
    IF t.autoRefresh /\ t.refreshInterval > 0 THEN SetInterval(t) ELSE t

\* usePerformanceOptimization.ts lines 243-256
ChartTimerEffect(t) ==
    IF t.autoRefresh /\ t.symbol # NULL /\ t.refreshInterval > 0
    THEN SetInterval(t) ELSE t

CanSetInterval(t) == t.created < MaxTimers

\* the effects of the first render of useStockData: the timer, the first fetch
WatchMountEffects ==
    /\ CanStart
    /\ ~wlTimer.effects
    /\ wlTimer' = [WatchTimerEffect(wlTimer) EXCEPT !.effects = TRUE]
    /\ error' = NULL
    /\ Commit(fetchStockData(World, trackedSymbols))
    /\ UNCHANGED <<FINNHUB_API_KEY, wlMounted, trackedSymbols, chVars, tx>>
    /\ UNCHANGED <<clock, localStorage, series, loaded, chTimer, dash, updaters>>

\* the hook renders with other options: the cleanup of the timer effect,
\* then the effect
WatchOptionsChanged(autoRefresh, refreshInterval) ==
    /\ wlMounted /\ wlTimer.effects
    /\ CanSetInterval(wlTimer)
    /\ <<autoRefresh, refreshInterval>> # <<wlTimer.autoRefresh, wlTimer.refreshInterval>>
    /\ wlTimer' = WatchTimerEffect(
           [TimerCleanup(wlTimer) EXCEPT !.autoRefresh = autoRefresh,
                                         !.refreshInterval = refreshInterval])
    /\ UNCHANGED <<FINNHUB_API_KEY, wlVars, chVars, tx>>
    /\ UNCHANGED <<clock, localStorage, series, loaded, chTimer, dash, updaters>>

\* the hook renders with another tracked list: fetchStockData and
\* handleRefresh are new callbacks, so the cleanups of both effects run
\* (lines 123-127 and 136-143), then both effects
WatchListChanged(syms) ==
    /\ CanStart /\ wlTimer.effects
    /\ CanSetInterval(wlTimer)
    /\ syms # trackedSymbols
    /\ wlTimer' = WatchTimerEffect(ClearInterval(TimerCleanup(wlTimer)))
    /\ TrackedEffects(syms)
    /\ UNCHANGED <<FINNHUB_API_KEY, wlMounted, chVars, tx>>
    /\ UNCHANGED <<clock, localStorage, series, loaded, chTimer, dash, updaters>>

\* an interval timer of useStockData fires: handleRefresh (lines 103-106)
WatchTick ==
    /\ wlTimer.running # {}
    /\ Quiescent /\ Len(cycles) < MaxCycles
    /\ wlTimer' = [wlTimer EXCEPT !.ticks = @ + 1]
    /\ error' = NULL
    /\ Commit(fetchStockData([World EXCEPT !.refreshing = TRUE], trackedSymbols))
    /\ UNCHANGED <<FINNHUB_API_KEY, wlMounted, trackedSymbols, chVars, tx>>
    /\ UNCHANGED <<clock, localStorage, series, loaded, chTimer, dash, updaters>>

\* useStockData unmounts: the cleanups of lines 123-127 and 136-143
WatchUnmount ==
    /\ wlMounted /\ wlTimer.effects
    /\ Quiescent
    /\ wlMounted' = FALSE
    /\ wlTimer' = ClearInterval(TimerCleanup(wlTimer))
    /\ aborted' = IF abortControllerRef = 0 THEN aborted
                  ELSE aborted \cup {abortControllerRef}
    /\ UNCHANGED <<trackedSymbols, stocks, profiles, loading, error, refreshing,
                   abortControllerRef, cycles, requests>>
    /\ UNCHANGED <<FINNHUB_API_KEY, chVars, tx>>
    /\ UNCHANGED <<clock, localStorage, series, loaded, chTimer, dash, updaters>>

\* lines 233-239 of usePerformanceOptimization.ts, on the state h of the hook
SymbolEffect(h, symbol) ==
    IF symbol # NULL THEN StartChartCall(h, symbol) ELSE ClearChart(h)

CanCall(n) == ChartQuiescent /\ Len(chartCalls) + n <= MaxChartCalls

\* the effects of the first render of useChartData: the symbol, the timer
ChartMountEffects ==
    /\ chartMounted /\ ~chTimer.effects
    /\ CanCall(1)
    /\ chTimer' = [ChartTimerEffect(chTimer) EXCEPT !.effects = TRUE]
    /\ ChartHookCommit(SymbolEffect(ChartHook, chTimer.symbol))
    /\ UNCHANGED <<FINNHUB_API_KEY, wlVars, chartMounted, tx>>
    /\ UNCHANGED <<clock, localStorage, series, loaded, wlTimer, dash, updaters>>

\* the hook renders with other options: the cleanup of the timer effect, the
\* symbol effect when the symbol is another one, the timer effect
ChartOptionsChanged(symbol, autoRefresh, refreshInterval) ==
    /\ chartMounted /\ chTimer.effects
    /\ CanCall(1) /\ CanSetInterval(chTimer)
    /\ <<symbol, autoRefresh, refreshInterval>>
           # <<chTimer.symbol, chTimer.autoRefresh, chTimer.refreshInterval>>
    /\ chTimer' = ChartTimerEffect(
           [TimerCleanup(chTimer) EXCEPT !.symbol = symbol,
                                         !.autoRefresh = autoRefresh,
                                         !.refreshInterval = refreshInterval])
    /\ ChartHookCommit(IF symbol # chTimer.symbol
                       THEN SymbolEffect(ChartHook, symbol) ELSE ChartHook)
    /\ UNCHANGED <<FINNHUB_API_KEY, wlVars, chartMounted, tx>>
    /\ UNCHANGED <<clock, localStorage, series, loaded, wlTimer, dash, updaters>>

\* an interval timer of useChartData fires (lines 244-248)
ChartTick ==
    /\ \E timer \in chTimer.running :
           /\ CanCall(1)
           /\ ChartHookCommit(IF timer.symbol # NULL
                              THEN StartChartCall(ChartHook, timer.symbol)
                              ELSE ChartHook)
    /\ chTimer' = [chTimer EXCEPT !.ticks = @ + 1]
    /\ UNCHANGED <<FINNHUB_API_KEY, wlVars, chartMounted, tx>>
    /\ UNCHANGED <<clock, localStorage, series, loaded, wlTimer, dash, updaters>>

\* useChartData unmounts: the cleanups of lines 250-254 and 260-267
ChartUnmount ==
    /\ chartMounted /\ chTimer.effects
    /\ ChartQuiescent
    /\ chartMounted' = FALSE
    /\ chTimer' = ClearInterval(TimerCleanup(chTimer))
    /\ ChartHookCommit([ChartHook EXCEPT
           !.aborted = IF chartAbortRef = 0 THEN @ ELSE @ \cup {chartAbortRef}])
    /\ UNCHANGED <<FINNHUB_API_KEY, wlVars, tx>>
    /\ UNCHANGED <<clock, localStorage, series, loaded, wlTimer, dash, updaters>>

Rendered(symbol, autoRefresh, refreshInterval) ==
    [NoTimer EXCEPT !.symbol = symbol, !.autoRefresh = autoRefresh,
                    !.refreshInterval = refreshInterval]

\* one of the hooks after its first render, with no credential configured,
\* so that a fetch is not left waiting for the network
TimerInit ==
    /\ FINNHUB_API_KEY = FALSE
    /\ tx = TxIdle
    /\ ChartHookInit
    /\ clock = NoonUTC
    /\ localStorage = EmptyStorage
    /\ series = NoChartData
    /\ loaded = NotLoaded
    /\ dash = NoDashboard
    /\ updaters = <<>>
    /\ \/ /\ wlMounted = TRUE
          /\ chartMounted = FALSE
          /\ \E symbols \in SymbolLists : WatchHookInit(symbols)
          /\ wlTimer \in {Rendered(NULL, a, r) : a \in BOOLEAN, r \in Intervals}
          /\ chTimer = NoTimer
       \/ /\ wlMounted = FALSE
          /\ chartMounted = TRUE
          /\ WatchHookInit(<<>>)
          /\ wlTimer = NoTimer
          /\ chTimer \in {Rendered(s, a, r) :
                             s \in Tickers \cup {NULL}, a \in BOOLEAN, r \in Intervals}

TimerNext ==
    \/ WatchMountEffects
    \/ \E a \in BOOLEAN : \E r \in Intervals : WatchOptionsChanged(a, r)
    \/ \E syms \in SymbolLists : WatchListChanged(syms)
    \/ WatchTick
    \/ WatchUnmount
    \/ ChartMountEffects
    \/ \E s \in Tickers \cup {NULL} : \E a \in BOOLEAN : \E r \in Intervals :
           ChartOptionsChanged(s, a, r)
    \/ ChartTick
    \/ \E k \in 1..Len(chartCalls) : \E rnd \in RandomDraws : ChartDelayDone(k, rnd)
    \/ ChartUnmount

TimerSpec == TimerInit /\ [][TimerNext]_vars

----------------------------------------------------------------------------
(* addSymbol and removeSymbol of useStockData, call by call *)

MaxPending == 2      \* state updates queued before the hook renders again

\* what a caller may pass as a symbol, character by character
Inputs ==
    {<<"A", "A", "P", "L">>, <<" ", "a", "a", "p", "l", " ">>,
     <<"b", "a", "d", "1">>, <<" ", " ">>}

UpperCase == [a |-> "A", b |-> "B", d |-> "D", l |-> "L", p |-> "P"]

\* String.prototype.toUpperCase
toUpperCase(chars) ==
    [k \in 1..Len(chars) |->
        IF chars[k] \in DOMAIN UpperCase THEN UpperCase[chars[k]] ELSE chars[k]]

RECURSIVE trimStart(_)
trimStart(chars) ==
    IF chars # <<>> /\ Head(chars) = " " THEN trimStart(Tail(chars)) ELSE chars

RECURSIVE trimEnd(_)
trimEnd(chars) ==
    IF chars # <<>> /\ chars[Len(chars)] = " "
    THEN trimEnd(SubSeq(chars, 1, Len(chars) - 1)) ELSE chars

\* String.prototype.trim
trim(chars) == trimEnd(trimStart(chars))

\* the string of a sequence of characters
RECURSIVE StringOf(_)
StringOf(chars) == IF chars = <<>> THEN "" ELSE Head(chars) \o StringOf(Tail(chars))

\* line 109
normalizedSymbol(input) == StringOf(trim(toUpperCase(input)))

\* the updater functions passed to setTrackedSymbols, lines 111 and 116
AddUpdater(symbol) == [op |-> "add", symbol |-> symbol]
RemoveUpdater(symbol) == [op |-> "remove", symbol |-> symbol]

ApplyUpdater(prev, u) ==
    IF u.op = "add" THEN Append(prev, u.symbol)
    ELSE SelectSeq(prev, LAMBDA s : s # u.symbol)

\* React applies the queued updaters in order when it renders the hook
RECURSIVE ApplyUpdaters(_, _)
ApplyUpdaters(prev, queue) ==
    IF queue = <<>> THEN prev
    ELSE ApplyUpdaters(ApplyUpdater(prev, Head(queue)), Tail(queue))

Adds(queue) == Len(SelectSeq(queue, LAMBDA u : u.op = "add"))

\* a call of addSymbol (lines 108-113); trackedSymbols is the list of the
\* latest render
addSymbolCall(input) ==
    /\ wlMounted /\ cycles # <<>>
    /\ Len(updaters) < MaxPending
    /\ Len(trackedSymbols) + Adds(updaters) < MaxTracked
    /\ updaters' =
           IF /\ normalizedSymbol(input) # ""
              /\ normalizedSymbol(input) \notin Range(trackedSymbols)
           THEN Append(updaters, AddUpdater(normalizedSymbol(input)))
           ELSE updaters
    /\ UNCHANGED <<FINNHUB_API_KEY, wlVars, chVars, tx>>
    /\ UNCHANGED <<clock, localStorage, series, loaded, wlTimer, chTimer, dash>>

\* a call of removeSymbol (lines 115-117)
removeSymbolCall(symbol) ==
    /\ wlMounted /\ cycles # <<>>
    /\ Len(updaters) < MaxPending
    /\ updaters' = Append(updaters, RemoveUpdater(symbol))
    /\ UNCHANGED <<FINNHUB_API_KEY, wlVars, chVars, tx>>
    /\ UNCHANGED <<clock, localStorage, series, loaded, wlTimer, chTimer, dash>>

\* the hook renders with the queued updates applied; its effects run
Rerender ==
    /\ CanStart
    /\ updaters # <<>>
    /\ updaters' = <<>>
    /\ TrackedEffects(ApplyUpdaters(trackedSymbols, updaters))
    /\ UNCHANGED <<FINNHUB_API_KEY, wlMounted, chVars, tx>>
    /\ UNCHANGED <<clock, localStorage, series, loaded, wlTimer, chTimer, dash>>

\* the hook with no credential configured, so that a fetch cycle is one step
TrackedInit ==
    /\ FINNHUB_API_KEY = FALSE
    /\ wlMounted = TRUE
    /\ \E symbols \in SymbolLists : WatchHookInit(symbols)
    /\ chartMounted = FALSE
    /\ ChartHookInit
    /\ tx = TxIdle
    /\ AppIdle

TrackedNext ==
    \/ InitialFetch
    \/ \E input \in Inputs : addSymbolCall(input)
    \/ \E symbol \in Tickers : removeSymbolCall(symbol)
    \/ Rerender

TrackedSpec == TrackedInit /\ [][TrackedNext]_vars

----------------------------------------------------------------------------
(* SessionStorage: the tracked symbols in localStorage *)

\* A text is the sequence of its tokens: a punctuation mark of JSON or the
\* characters of a string between two quotes.
Punctuation == {"[", "]", ",", "\""}

RECURSIVE StringifyFrom(_, _)
StringifyFrom(symbols, i) ==
    IF i > Len(symbols) THEN <<>>
    ELSE (IF i > 1 THEN <<",">> ELSE <<>>) \o <<"\"", symbols[i], "\"">>
         \o StringifyFrom(symbols, i + 1)

\* JSON.stringify of an array of strings
JSONstringify(symbols) == <<"[">> \o StringifyFrom(symbols, 1) \o <<"]">>

SyntaxError == [ok |-> FALSE, value |-> <<>>]

\* the elements of an array from token i on, acc being those read so far
RECURSIVE ParseElements(_, _, _)
ParseElements(text, i, acc) ==
    IF /\ i + 2 <= Len(text)
       /\ text[i] = "\"" /\ text[i + 1] \notin Punctuation /\ text[i + 2] = "\""
    THEN LET read == Append(acc, text[i + 1])
         IN  IF i + 3 = Len(text) /\ text[i + 3] = "]"
             THEN [ok |-> TRUE, value |-> read]
             ELSE IF i + 3 < Len(text) /\ text[i + 3] = ","
                  THEN ParseElements(text, i + 4, read)
                  ELSE SyntaxError
    ELSE SyntaxError

\* JSON.parse of a text that should hold an array of strings
JSONparse(text) ==
    IF text = <<"[", "]">> THEN [ok |-> TRUE, value |-> <<>>]
    ELSE IF Len(text) >= 1 /\ text[1] = "[" THEN ParseElements(text, 2, <<>>)
         ELSE SyntaxError

getTrackedSymbols_IgnoresStore(store) == <<>>

\* lines 118-126 of formatters.ts
getTrackedSymbols(store) ==
    LET stored == store[STORAGE_KEYS.TRACKED_SYMBOLS]
    IN  IF stored.present /\ stored.text # <<>>
        THEN LET parsed == JSONparse(stored.text)
             IN  IF parsed.ok THEN parsed.value ELSE <<>>
        ELSE <<>>

\* lines 128-134 of formatters.ts; setItem throws when the store refuses the
\* write (full, or disabled), and the catch clause only logs it
setTrackedSymbols(store, symbols, setItemThrows) ==
    IF setItemThrows THEN store
    ELSE [store EXCEPT ![STORAGE_KEYS.TRACKED_SYMBOLS] = Item(JSONstringify(symbols))]

StoredLists == UNION {[1..n -> Tickers] : n \in 0..MaxTracked}

\* what an earlier session or another page may have left under the key
StoredTexts ==
    {JSONstringify(l) : l \in StoredLists}
        \cup {<<>>, <<"[", "\"", "AAPL">>, <<"\"", "AAPL", "\"">>}

StoreSet(symbols, setItemThrows) ==
    /\ localStorage' = setTrackedSymbols(localStorage, symbols, setItemThrows)
    /\ loaded' = [set |-> IF setItemThrows THEN "failed" ELSE "stored",
                  list |-> symbols, called |-> FALSE, value |-> <<>>]
    /\ UNCHANGED <<FINNHUB_API_KEY, wlVars, chVars, tx>>
    /\ UNCHANGED <<clock, series, wlTimer, chTimer, dash, updaters>>

StoreGet ==
    /\ loaded' = [loaded EXCEPT !.called = TRUE,
                                !.value = getTrackedSymbols(localStorage)]
    /\ UNCHANGED <<FINNHUB_API_KEY, wlVars, chVars, tx>>
    /\ UNCHANGED <<clock, localStorage, series, wlTimer, chTimer, dash, updaters>>

StoreInit ==
    /\ FINNHUB_API_KEY \in BOOLEAN
    /\ wlMounted = FALSE
    /\ WatchHookInit(<<>>)
    /\ chartMounted = FALSE
    /\ ChartHookInit
    /\ tx = TxIdle
    /\ clock = NoonUTC
    /\ localStorage \in
           {[EmptyStorage EXCEPT ![STORAGE_KEYS.TRACKED_SYMBOLS] = item] :
               item \in {NoItem} \cup {Item(t) : t \in StoredTexts}}
    /\ series = NoChartData
    /\ loaded = NotLoaded
    /\ wlTimer = NoTimer
    /\ chTimer = NoTimer
    /\ dash = NoDashboard
    /\ updaters = <<>>

StoreNext ==
    \/ \E symbols \in StoredLists : \E setItemThrows \in BOOLEAN :
           StoreSet(symbols, setItemThrows)
    \/ StoreGet

StoreSpec == StoreInit /\ [][StoreNext]_vars

----------------------------------------------------------------------------
(* StockDashboard: the tracked list, the selected stock and what it stores *)

isDemoMode_Never == FALSE

\* formatters.ts lines 216-218
isDemoMode == ~FINNHUB_API_KEY

\* formatters.ts lines 154-161: the stored text, or null; the one caller
\* treats the empty text as null
getSelectedStock(store) ==
    LET item == store[STORAGE_KEYS.SELECTED_STOCK]
    IN  IF item.present /\ item.text # <<>> THEN item.text[1] ELSE NULL

\* formatters.ts lines 163-173, the store accepting the write
setSelectedStock(store, symbol) ==
    [store EXCEPT ![STORAGE_KEYS.SELECTED_STOCK] =
        IF symbol # NULL THEN Item(<<symbol>>) ELSE NoItem]

\* formatters.ts lines 68-70, on the characters of the input
normalizeSymbol(input) == toUpperCase(trim(input))

UpperLetters == {UpperCase[c] : c \in DOMAIN UpperCase}

\* formatters.ts lines 59-63: /^[A-Z]{1,5}$/
isValidSymbol(chars) ==
    Len(chars) \in 1..5 /\ \A k \in 1..Len(chars) : chars[k] \in UpperLetters

\* the messages of the toasts of the three handlers
TOAST ==
    [DemoAdd |-> "Adding new symbols is disabled in demo mode. Get an API key to enable this feature.",
     Invalid |-> "Please enter a valid stock symbol (1-5 letters)",
     Already |-> "is already in your watchlist",
     Added |-> "has been added to your watchlist",
     DemoRemove |-> "Cannot remove default symbols in demo mode. Get an API key to enable this feature.",
     Removed |-> "has been removed from your watchlist"]

\* lines 372-380: the effects that save the tracked list and the selected
\* stock, each when its dependency changed
SaveEffects(store, listChanged, list, selChanged, sel) ==
    LET saved == IF listChanged THEN setTrackedSymbols(store, list, FALSE) ELSE store
    IN  IF selChanged THEN setSelectedStock(saved, sel) ELSE saved

\* lines 383-388: the effect that loads the selected stock, when
\* trackedSymbols changed; what selectedStock is after it
LoadEffect(store, listChanged, list, sel) ==
    LET storedSelectedStock == getSelectedStock(store)
    IN  IF /\ listChanged
           /\ storedSelectedStock # NULL
           /\ storedSelectedStock \in Range(list)
        THEN storedSelectedStock ELSE sel

\* the timer effect of useChartData after its symbol changed
ChartSymbolTimer(t, symbol) ==
    ChartTimerEffect([TimerCleanup(t) EXCEPT !.symbol = symbol])

\* StockDashboard renders with selectedStock sel and trackedSymbols list and
\* the effects whose dependencies changed run, all of them after the first
\* render: those of useChartData on its state h and its timer t, then the
\* dashboard's own; when the effect that loads sets another selected stock,
\* the dashboard renders once more
DashRender(first, sel, list, listChanged, toast, h, t) ==
    LET selChanged == first \/ sel # dash.selectedStock
        saved == SaveEffects(localStorage, listChanged, list, selChanged, sel)
        loadedSel == LoadEffect(saved, listChanged, list, sel)
        h1 == IF selChanged THEN SymbolEffect(h, sel) ELSE h
        t1 == IF selChanged THEN ChartSymbolTimer(t, sel) ELSE t
    IN  /\ dash' = [mounted |-> TRUE, selectedStock |-> loadedSel,
                    trackedSymbols |-> list, toast |-> toast]
        /\ localStorage' = IF loadedSel # sel THEN setSelectedStock(saved, loadedSel)
                           ELSE saved
        /\ ChartHookCommit(IF loadedSel # sel THEN SymbolEffect(h1, loadedSel) ELSE h1)
        /\ chTimer' = [(IF loadedSel # sel THEN ChartSymbolTimer(t1, loadedSel) ELSE t1)
                          EXCEPT !.effects = TRUE]

\* fetchStockData after the cleanup of lines 136-143, on the state w
Refetch(w, syms) ==
    fetchStockData([w EXCEPT !.aborted = IF w.ref = 0 THEN @ ELSE @ \cup {w.ref}], syms)

\* useStockData after the dashboard changed its tracked list and called
\* addSymbol or removeSymbol: the hook renders with the list of its own
\* updater and its effects run; the effect of lines 147-149 then sets the
\* list of the dashboard, another array, and the effects run once more
WatchListRender(list) ==
    /\ Quiescent
    /\ Len(cycles) + 2 <= MaxCycles
    /\ wlTimer.created + 2 <= MaxTimers
    /\ trackedSymbols' = list
    /\ error' = NULL
    /\ Commit(Refetch(Refetch(World, list), list))
    /\ wlTimer' = WatchTimerEffect(ClearInterval(TimerCleanup(
                      WatchTimerEffect(ClearInterval(TimerCleanup(wlTimer))))))
    /\ UNCHANGED wlMounted

\* the first render of StockDashboard (lines 307-359) and its effects
DashMount ==
    /\ ~dash.mounted
    /\ LET stored == getTrackedSymbols(localStorage)
           list == IF Len(stored) > 0 THEN stored ELSE DEFAULT_SYMBOLS
       IN  /\ wlMounted' = TRUE
           /\ trackedSymbols' = list
           /\ error' = NULL
           /\ Commit(fetchStockData(World, list))
           /\ wlTimer' = [WatchTimerEffect(Rendered(NULL, TRUE, 60000))
                             EXCEPT !.effects = TRUE]
           /\ chartMounted' = TRUE
           /\ DashRender(TRUE, NULL, list, TRUE, NULL, ChartHook,
                         Rendered(NULL, TRUE, 300000))
    /\ UNCHANGED <<FINNHUB_API_KEY, tx, clock, series, loaded, updaters>>

\* the rows of the table
Displayed == {stocks[k].symbol : k \in 1..Len(stocks)}

\* handleStockSelect (lines 394-397), and the render that follows
handleStockSelect(symbol) ==
    /\ dash.mounted
    /\ symbol \in Displayed
    /\ CanCall(2) /\ CanSetInterval(chTimer)
    /\ DashRender(FALSE, symbol, dash.trackedSymbols, FALSE, dash.toast,
                  StartChartCall(ChartHook, symbol), chTimer)
    /\ UNCHANGED <<wlVars, wlTimer, chartMounted>>
    /\ UNCHANGED <<FINNHUB_API_KEY, tx, clock, series, loaded, updaters>>

\* a handler that only shows a toast
ShowToast(message) ==
    /\ dash' = [dash EXCEPT !.toast = message]
    /\ UNCHANGED <<FINNHUB_API_KEY, wlVars, chVars, tx>>
    /\ UNCHANGED <<clock, localStorage, series, loaded, wlTimer, chTimer, updaters>>

\* handleAddSymbol (lines 399-446) with customSymbol in the input field, and
\* the renders that follow
handleAddSymbol(customSymbol) ==
    /\ dash.mounted
    /\ IF isDemoMode THEN ShowToast(TOAST.DemoAdd)
       ELSE IF normalizeSymbol(customSymbol) = <<>> THEN UNCHANGED vars
       ELSE IF ~isValidSymbol(normalizeSymbol(customSymbol)) THEN ShowToast(TOAST.Invalid)
       ELSE IF StringOf(normalizeSymbol(customSymbol)) \in Range(dash.trackedSymbols)
            THEN ShowToast(TOAST.Already)
       ELSE LET list == Append(dash.trackedSymbols, StringOf(normalizeSymbol(customSymbol)))
            IN  /\ WatchListRender(list)
                /\ DashRender(FALSE, dash.selectedStock, list, TRUE, TOAST.Added,
                              ChartHook, chTimer)
                /\ UNCHANGED chartMounted
                /\ UNCHANGED <<FINNHUB_API_KEY, tx, clock, series, loaded, updaters>>

\* handleRemoveSymbol (lines 448-474), and the renders that follow
handleRemoveSymbol(symbol) ==
    /\ dash.mounted
    /\ IF isDemoMode /\ symbol \in Range(DEFAULT_SYMBOLS) THEN ShowToast(TOAST.DemoRemove)
       ELSE LET list == SelectSeq(dash.trackedSymbols, LAMBDA s : s # symbol)
                selected == dash.selectedStock = symbol
            IN  /\ WatchListRender(list)
                /\ CanCall(1) /\ CanSetInterval(chTimer)
                /\ DashRender(FALSE, IF selected THEN NULL ELSE dash.selectedStock,
                              list, TRUE, TOAST.Removed,
                              IF selected THEN ClearChart(ChartHook) ELSE ChartHook,
                              chTimer)
                /\ UNCHANGED chartMounted
                /\ UNCHANGED <<FINNHUB_API_KEY, tx, clock, series, loaded, updaters>>

\* what an earlier session left in localStorage
EarlierSessions ==
    [{STORAGE_KEYS.TRACKED_SYMBOLS} -> {NoItem} \cup {Item(JSONstringify(l)) : l \in SymbolLists}]
        \X [{STORAGE_KEYS.SELECTED_STOCK} -> {NoItem} \cup {Item(<<s>>) : s \in Tickers}]

\* the page is opened with no credential configured
DashInit ==
    /\ FINNHUB_API_KEY = FALSE
    /\ wlMounted = FALSE
    /\ WatchHookInit(<<>>)
    /\ chartMounted = FALSE
    /\ ChartHookInit
    /\ tx = TxIdle
    /\ clock = NoonUTC
    /\ localStorage \in {e[1] @@ e[2] : e \in EarlierSessions}
    /\ series = NoChartData
    /\ loaded = NotLoaded
    /\ wlTimer = NoTimer
    /\ chTimer = NoTimer
    /\ dash = NoDashboard
    /\ updaters = <<>>

DashNext ==
    \/ DashMount
    \/ \E symbol \in Range(DEFAULT_SYMBOLS) \cup Tickers : handleStockSelect(symbol)
    \/ \E customSymbol \in Inputs : handleAddSymbol(customSymbol)
    \/ \E symbol \in Tickers : handleRemoveSymbol(symbol)
    \/ WatchTick
    \/ ChartTick
    \/ \E k \in 1..Len(chartCalls) : \E rnd \in RandomDraws : ChartDelayDone(k, rnd)

DashSpec == DashInit /\ [][DashNext]_vars

----------------------------------------------------------------------------
(* Specifications *)

\* the watchlist hook alone
WatchInit ==
    /\ FINNHUB_API_KEY \in BOOLEAN
    /\ wlMounted = TRUE
    /\ \E symbols \in SymbolLists : WatchHookInit(symbols)
    /\ chartMounted = FALSE
    /\ ChartHookInit
    /\ tx = TxIdle
    /\ AppIdle

WatchSpec == WatchInit /\ [][WatchNext]_vars

\* the chart hook alone
ChartInit ==
    /\ FINNHUB_API_KEY \in BOOLEAN
    /\ wlMounted = FALSE
    /\ WatchHookInit(<<>>)
    /\ chartMounted = TRUE
    /\ ChartHookInit
    /\ tx = TxIdle
    /\ AppIdle

ChartSpec == ChartInit /\ [][ChartNext]_vars

\* either hook
ControllersInit == WatchInit \/ ChartInit
ControllersNext == WatchNext \/ ChartNext
ControllersSpec == ControllersInit /\ [][ControllersNext]_vars

\* the transport alone
TransportInit ==
    /\ FINNHUB_API_KEY \in BOOLEAN
    /\ wlMounted = FALSE
    /\ WatchHookInit(<<>>)
    /\ chartMounted = FALSE
    /\ ChartHookInit
    /\ tx = TxIdle
    /\ AppIdle

TransportSpec == TransportInit /\ [][TransportNext]_vars

\* the transport when every request it sends ends, with a response or with a
\* network error, and every sleep of the retry loop elapses
TransportLiveSpec ==
    /\ TransportInit
    /\ [][TransportNext]_vars
    /\ WF_vars((\E status \in Responses : TxResponse(status)) \/ TxNetworkError)
    /\ WF_vars(TxSleepDone)

\* no credential configured: the watchlist hook, and calls of the transport
DemoInit ==
    /\ FINNHUB_API_KEY = FALSE
    /\ wlMounted = TRUE
    /\ \E symbols \in SymbolLists : WatchHookInit(symbols)
    /\ chartMounted = FALSE
    /\ ChartHookInit
    /\ tx = TxIdle
    /\ AppIdle

DemoNext ==
    \/ InitialFetch
    \/ handleRefresh
    \/ \E s \in Tickers : addSymbol(s)
    \/ \E s \in Tickers : removeSymbol(s)
    \/ \E retries \in 1..MaxRetries : \E hasSignal, signalAborted \in BOOLEAN :
           TxCall(retries, hasSignal, signalAborted)

DemoSpec == DemoInit /\ [][DemoNext]_vars

----------------------------------------------------------------------------
(* Claims about the watchlist controller *)

AllCyclesDone == \A c \in 1..Len(cycles) : cycles[c].pc = "done"
LatestCycle == cycles[Len(cycles)]
Superseded(c) == c < Len(cycles)

\* C1: in live mode, once every fetch cycle has finished, the visible stocks
\* list and profiles map are those the most recently started cycle produced,
\* whatever the order in which the transport calls of the cycles resolved.
C1_NewestCycleVisible ==
    (FINNHUB_API_KEY /\ Len(cycles) >= 2 /\ AllCyclesDone)
        => (stocks = LatestCycle.valid /\ profiles = LatestCycle.profs)

\* C2: a step taken by a fetch cycle after a newer cycle was started writes
\* none of stocks, profiles, loading, refreshing and error.
C2_SupersededIsNoOp ==
    [][\A c \in 1..Len(cycles) :
          (Superseded(c) /\ cycles'[c] # cycles[c])
              => UNCHANGED <<stocks, profiles, loading, refreshing, error>>]_vars

\* C3: a fetch cycle sends no network request, in its quote pass or in its
\* profile pass, after a newer cycle was started.
C3_NoRequestAfterSupersession == \A r \in requests : ~r.stale

\* C7: in live mode, when the most recently started cycle has ended and a
\* transport call of its quote pass ended in RateLimitError or FetchFailed,
\* the error field holds a message.
C7_FailureSurfaced ==
    (FINNHUB_API_KEY /\ cycles # <<>> /\ LatestCycle.pc = "done"
        /\ LatestCycle.lastErr \in {"RateLimitError", "FetchFailed"})
        => error # NULL

\* C8: when the previous cycle left a non-empty stocks list and profiles map
\* and the next cycle, started after it had ended, has every quote fetch
\* fail, the step that ends that cycle leaves stocks and profiles unchanged.
C8_FailedCycleKeepsDataset ==
    [][\A c \in 1..Len(cycles) :
          (/\ FINNHUB_API_KEY
           /\ c = Len(cycles) /\ ~cycles[c].overlap
           /\ cycles[c].pc # "done" /\ cycles'[c].pc = "done"
           /\ cycles[c].syms # <<>> /\ cycles'[c].results = <<>>
           /\ cycles'[c].lastErr \in TransportErrors
           /\ stocks # <<>> /\ profiles # EmptyMap)
              => (stocks' = stocks /\ profiles' = profiles)]_vars

----------------------------------------------------------------------------
(* Claims about the chart controller *)

ChartState == <<chartData, chartIsDemoData, chartError, chartLoading>>

\* C4: a step taken by a fetchChartData call after a later call was started
\* changes none of chartData, isDemoData, error and loading, also when both
\* calls are for the same symbol.
C4_OnlyLatestCallUpdates ==
    [][\A k \in 1..Len(chartCalls) :
          (k < Len(chartCalls) /\ chartCalls'[k] # chartCalls[k])
              => UNCHANGED ChartState]_vars

\* C5: the message of a cancellation error is never the value of the error
\* field of the watchlist controller or of the chart controller.
C5_NoCancellationError ==
    /\ error # AbortError.message
    /\ chartError # AbortError.message

\* a fetchChartData call was cancelled while its symbol stayed selected, and
\* has ended
C5_Witness ==
    \E k \in 1..Len(chartCalls) :
        /\ chartCalls[k].pc = "done"
        /\ chartCalls[k].rejected /\ ~chartCalls[k].discarded

\* C6: a step of a fetchChartData(S) call taken when the current symbol is
\* not S changes none of chartData, isDemoData, error and loading.
C6_StaleSymbolDiscarded ==
    [][\A k \in 1..Len(chartCalls) :
          (chartCalls'[k] # chartCalls[k] /\ currentSymbolRef # chartCalls[k].target)
              => UNCHANGED ChartState]_vars

\* a call has ended while another symbol, or none, was selected
C6_Witness ==
    \E k \in 1..Len(chartCalls) :
        chartCalls[k].pc = "done" /\ chartCalls[k].discarded

----------------------------------------------------------------------------
(* Claims about the transport *)

\* C9: a response with a non-2xx status other than 429 ends the invocation:
\* it has raised an error carrying that status, no request and no wait
\* followed, and when it answered the first request no wait occurred at all.
C9_HttpErrorFailsAtOnce ==
    \A k \in 1..Len(tx.responses) :
        tx.responses[k] \in HttpErrorStatuses
            => /\ tx.pc = "threw"
               /\ tx.err.status = StatusCode(tx.responses[k])
               /\ Len(tx.responses) = k
               /\ tx.requests = k
               /\ Len(tx.waits) = k - 1

\* C10: no request is pending once the timeout has fired or the caller's
\* signal is aborted, with or without a caller-supplied signal.
C10_TimeoutOrSignalAborts ==
    tx.pc = "fetching" => ~(tx.timedOut \/ tx.signalAborted)

\* C11: with a budget of 3 attempts, the answers 429, 429, 200 end the
\* invocation with the parsed data and no error after waits of exactly 1000 ms
\* then 2000 ms, and three 429 answers end it with the rate-limit error after
\* exactly 3 requests; with any budget, the wait that follows a 429 answer to
\* attempt number k is 1000 ms times k.
C11_RateLimitBackoff ==
    /\ (tx.retries = 3 /\ tx.responses = <<"429", "429", "200">>)
           => /\ tx.pc = "returned"
              /\ tx.err = NoError
              /\ tx.waits = <<1000, 2000>>
              /\ tx.requests = 3
    /\ (tx.retries = 3 /\ tx.responses = <<"429", "429", "429">>)
           => /\ tx.pc = "threw"
              /\ tx.err = APIError(ERROR_MESSAGES.RATE_LIMIT, 0)
              /\ tx.waits = <<1000, 2000>>
              /\ tx.requests = 3
    /\ \A k \in 1..Len(tx.responses) :
           (tx.responses[k] = "429" /\ k < tx.retries)
               => (Len(tx.waits) >= k /\ tx.waits[k] = 1000 * k)

\* 429 twice, then success on the third attempt of three
C11_Witness ==
    /\ tx.retries = 3
    /\ tx.responses = <<"429", "429", "200">>
    /\ tx.pc = "returned"

----------------------------------------------------------------------------
(* Claims about the profiles of the watchlist controller *)

\* C32: whenever every fetch cycle that was started has ended, the profiles
\* map has a key for every symbol of the stocks list.
C32_ProfileForEveryStock ==
    InFlight(World) = {} =>
        \A k \in 1..Len(stocks) : stocks[k].symbol \in DOMAIN profiles

----------------------------------------------------------------------------
(* Claims about the state the chart controller shows *)

\* C33: while the call of fetchChartData started last is for the symbol
\* currentSymbolRef holds and has not ended, loading is true, whatever
\* earlier calls have ended meanwhile.
C33_LoadingUntilLatestEnds ==
    (/\ chartCalls # <<>>
     /\ chartCalls[Len(chartCalls)].pc # "done"
     /\ chartCalls[Len(chartCalls)].target = currentSymbolRef) => chartLoading

\* data is a series generateDemoChartData returns for its symbol
Synthesized(data) ==
    \E rnd \in RandomDraws : data = generateDemoChartData(data.symbol, rnd)

\* C34: isDemoData is true exactly when chartData is a series that
\* generateDemoChartData made; it is false when chartData is null or a series
\* of the provider.
C34_DemoFlagMatchesData ==
    chartIsDemoData <=> (chartData # NoChartData /\ Synthesized(chartData))

\* a series of the provider is shown after a call that fell back to a
\* synthesized one
C34_Witness ==
    /\ Len(chartCalls) >= 2
    /\ chartCalls[1].answer = "empty" /\ ~chartCalls[1].discarded
    /\ chartData.prices # <<>> /\ ~Synthesized(chartData)
    /\ ~chartIsDemoData

\* C35: whenever loading is false and the error is the 'Limited historical
\* data available' advisory, chartData is a series generateDemoChartData made
\* and isDemoData is true.
C35_AdvisoryOnlyWithDemoData ==
    (~chartLoading /\ \E symbol \in Tickers : chartError = LimitedData(symbol))
        => (chartIsDemoData /\ chartData # NoChartData /\ Synthesized(chartData))

\* C36: whenever chartData is not null and loading is false, the symbol of
\* chartData is the argument of the latest call of fetchChartData, no
\* clearData having followed that call.
C36_SeriesOfSelectedSymbol ==
    (chartData # NoChartData /\ ~chartLoading) =>
        /\ chartCalls # <<>>
        /\ chartData.symbol = chartCalls[Len(chartCalls)].target
        /\ chartData.symbol = currentSymbolRef

\* a call for another symbol ended late and was discarded; the series shown
\* is that of the latest call
C36_Witness ==
    /\ Len(chartCalls) >= 2
    /\ chartCalls[1].target = "AAPL" /\ chartCalls[1].discarded
    /\ chartData.symbol = "BAD1" /\ ~chartLoading

----------------------------------------------------------------------------
(* Claims about the loading flag of the watchlist controller *)

\* C37: loading is true when the hook is first rendered, and no step makes it
\* true once it is false.
C37_LoadingOnlyOnce ==
    /\ loading = TRUE
    /\ [][~loading => ~loading']_vars

\* loading has become false and a refresh is in flight
C37_Witness ==
    /\ ~loading /\ refreshing
    /\ Len(cycles) >= 2
    /\ InFlight(World) # {}

----------------------------------------------------------------------------
(* Claims about the retry loop of the transport *)

----------------------------------------------------------------------------
(* Claims about the batch orchestrator *)

\* the symbols of syms whose fetch ended with a quote of positive price, in
\* the order of syms
RECURSIVE Picked(_, _)
Picked(syms, fetched) ==
    IF fetched = <<>> THEN <<>>
    ELSE LET n == Len(fetched)
         IN  Picked(syms, SubSeq(fetched, 1, n - 1))
                 \o (IF fetched[n] THEN <<syms[n]>> ELSE <<>>)

QuotePassOver(cy) == cy.pc \notin {"start", "quoteFetch", "quoteSleep"}

\* C12: in live mode getBatchStockQuotes handles every symbol of its input,
\* whatever the outcome of each fetch (quote, HTTP error, network error,
\* invalid price, cancellation), and what it has collected is at any time
\* exactly the quotes of the symbols whose fetch gave a positive price, in
\* input order.
C12_BatchQuotesExact ==
    FINNHUB_API_KEY =>
        \A c \in 1..Len(cycles) :
            LET cy == cycles[c] IN
            /\ [k \in 1..Len(cy.results) |-> cy.results[k].symbol]
                   = Picked(cy.syms, cy.fetched)
            /\ QuotePassOver(cy) => Len(cy.fetched) = Len(cy.syms)

\* a batch of two symbols has returned: the first fetch failed with a
\* transport error, the second gave a quote
C12_Witness ==
    /\ FINNHUB_API_KEY
    /\ \E c \in 1..Len(cycles) :
           /\ QuotePassOver(cycles[c])
           /\ cycles[c].fetched = <<FALSE, TRUE>>
           /\ cycles[c].lastErr \in TransportErrors
           /\ Len(cycles[c].results) = 1

\* C13: in live mode the map getBatchCompanyProfiles has returned holds a key
\* for every symbol of its input and no other, whichever of the profile
\* fetches failed, and a symbol whose fetch failed maps to the minimal
\* profile {symbol, name: symbol}.
C13_ProfilesComplete ==
    FINNHUB_API_KEY =>
        \A c \in 1..Len(cycles) :
            LET cy == cycles[c] IN
            /\ cy.pc = "done"
                   => DOMAIN cy.profs = {cy.valid[k].symbol : k \in 1..Len(cy.valid)}
            /\ \A s \in cy.failed :
                   s \in DOMAIN cy.profs /\ cy.profs[s] = MinimalProfile(s)

\* a profile batch of two symbols has returned; one fetch failed, the other
\* gave the provider's name
C13_Witness ==
    /\ FINNHUB_API_KEY
    /\ \E c \in 1..Len(cycles) :
           /\ cycles[c].pc = "done"
           /\ Len(cycles[c].valid) = 2
           /\ Cardinality(cycles[c].failed) = 1
           /\ \E s \in DOMAIN cycles[c].profs : cycles[c].profs[s].name = "Corp"

\* C14: every quote getBatchStockQuotes has collected, and every quote of the
\* stocks list of the watchlist controller, has a positive price, in live
\* mode and in demo mode.
C14_PricesPositive ==
    /\ \A c \in 1..Len(cycles) :
           \A k \in 1..Len(cycles[c].results) : cycles[c].results[k].price > 0
    /\ \A k \in 1..Len(stocks) : stocks[k].price > 0

\* the provider answered one symbol with price 0 and the other with a
\* positive price, and the cycle has published its stocks list
C14_Witness ==
    /\ FINNHUB_API_KEY
    /\ stocks # <<>>
    /\ \E c \in 1..Len(cycles) :
           /\ cycles[c].pc = "done"
           /\ cycles[c].lastErr = "InvalidData"
           /\ cycles[c].valid = stocks

----------------------------------------------------------------------------
(* Claims about demo mode *)

\* C15: with no credential configured no network request is ever sent, a
\* call of the transport raises the missing-credential error before sending
\* anything, and once a fetch cycle has run the controller shows exactly the
\* demo quotes whose symbol is tracked, the demo profiles of the tracked
\* symbols, loading = false, refreshing = false and no error.
C15_DemoModeReady ==
    ~FINNHUB_API_KEY =>
        /\ requests = {}
        /\ tx.requests = 0
        /\ tx.pc \in {"idle", "threw"}
        /\ tx.pc = "threw" => tx.err = APIError(ERROR_MESSAGES.API_KEY_MISSING, 0)
        /\ cycles # <<>> =>
               /\ AllCyclesDone
               /\ stocks = SelectSeq(DEMO_STOCKS,
                                     LAMBDA q : q.symbol \in Range(trackedSymbols))
               /\ DOMAIN profiles = Range(trackedSymbols) \cap DOMAIN DEMO_PROFILES
               /\ \A s \in DOMAIN profiles : profiles[s] = DEMO_PROFILES[s]
               /\ ~loading /\ ~refreshing /\ error = NULL

\* two cycles have run with a demo symbol and a symbol without demo data in
\* the tracked list, and a transport call was made
C15_Witness ==
    /\ ~FINNHUB_API_KEY
    /\ Len(cycles) >= 2
    /\ Range(trackedSymbols) = {"AAPL", "BAD1"}
    /\ stocks # <<>>
    /\ tx.pc = "threw"

----------------------------------------------------------------------------
(* Claims about the flags of the watchlist controller *)

\* C16: whenever at least one fetch cycle was started and every cycle has
\* ended, whatever each ended with (data, failed fetches, cancellation),
\* loading = false and refreshing = false.
C16_FlagsCleared ==
    (cycles # <<>> /\ AllCyclesDone) => (~loading /\ ~refreshing)

\* live mode: a refresh cancelled a cycle in flight, a fetch of a cycle failed
\* with a transport error, and every cycle has ended
C16_Witness ==
    /\ FINNHUB_API_KEY
    /\ AllCyclesDone
    /\ \E c \in 1..Len(cycles) : cycles[c].overlap
    /\ \E c \in 1..Len(cycles) : cycles[c].lastErr \in TransportErrors

\* C17: in live mode, once the first cycle has ended with data, refreshing = true in
\* every state in which the most recently started cycle is still in flight.
C17_RefreshingDuringCycle ==
    (/\ FINNHUB_API_KEY
     /\ Len(cycles) >= 2
     /\ cycles[1].pc = "done" /\ cycles[1].valid # <<>>
     /\ LatestCycle.pc # "done") => refreshing

----------------------------------------------------------------------------
(* Claims about the outcomes of the chart controller *)

\* the latest call of fetchChartData has ended, was not cancelled, and its
\* symbol is still the selected one
LatestChartCallEnded ==
    /\ chartCalls # <<>>
    /\ LET call == chartCalls[Len(chartCalls)]
       IN  /\ call.pc = "done"
           /\ ~call.rejected /\ ~call.discarded
           /\ currentSymbolRef = call.target

LatestChartCall == chartCalls[Len(chartCalls)]

\* C18: in live mode, when every history request of the latest call, for the
\* selected symbol S, was answered with HTTP 403 and the call has ended, the
\* error is the 'requires paid plan' advisory for S, chartData is the empty
\* series for S, and isDemoData is false.
C18_PaidPlanAdvisory ==
    (/\ FINNHUB_API_KEY
     /\ LatestChartCallEnded
     /\ LatestChartCall.answer = "HttpError403")
        => /\ chartError = PaidPlan(LatestChartCall.target)
           /\ chartData = [symbol |-> LatestChartCall.target, prices |-> <<>>]
           /\ ~chartIsDemoData

\* C19: in live mode, when the provider answered every request of the latest
\* call, for the selected symbol S, with zero data points and the call has
\* ended, chartData is a series of 30 points for S, isDemoData = true, the
\* error is the 'Limited historical data available' advisory for S, and
\* loading = false.
C19_EmptySeriesFallback ==
    (/\ FINNHUB_API_KEY
     /\ LatestChartCallEnded
     /\ LatestChartCall.answer = "empty")
        => /\ chartData.symbol = LatestChartCall.target
           /\ Len(chartData.prices) = 30
           /\ chartData \in {generateDemoChartData(LatestChartCall.target, rnd) :
                                  rnd \in RandomDraws}
           /\ chartIsDemoData
           /\ chartError = LimitedData(LatestChartCall.target)
           /\ ~chartLoading

\* a second call, made after the first had ended, got zero data points twice
C19_Witness ==
    /\ FINNHUB_API_KEY
    /\ LatestChartCallEnded
    /\ Len(chartCalls) = 2
    /\ LatestChartCall.answer = "empty"

\* C20: with no credential configured a call of fetchChartData sends no
\* request, and when the latest call, for the selected symbol S, has ended,
\* chartData is a series of 30 points for S, isDemoData = true, there is no
\* error and loading = false.
C20_DemoChart ==
    ~FINNHUB_API_KEY =>
        /\ \A k \in 1..Len(chartCalls) :
               chartCalls[k].sent = 0 /\ chartCalls[k].pc \in {"demoDelay", "done"}
        /\ LatestChartCallEnded
               => /\ chartData.symbol = LatestChartCall.target
                  /\ Len(chartData.prices) = 30
                  /\ chartData \in {generateDemoChartData(LatestChartCall.target, rnd) :
                                         rnd \in RandomDraws}
                  /\ chartIsDemoData
                  /\ chartError = NULL
                  /\ ~chartLoading

\* without credential, a call for a symbol without a demo base price has
\* ended after an earlier call for another symbol
C20_Witness ==
    /\ ~FINNHUB_API_KEY
    /\ LatestChartCallEnded
    /\ Len(chartCalls) >= 2
    /\ LatestChartCall.target = "BAD1"

\* C21: from clearData until the next call of fetchChartData the chart
\* controller is in the Empty state (chartData = null, error = null, loading =
\* false, isDemoData = false), whatever the fetches that were in flight at the
\* time of the clear end with.  currentSymbolRef is null exactly in that span
\* and before the first call.
C21_ClearedStaysEmpty ==
    currentSymbolRef = NULL
        => /\ chartData = NoChartData
           /\ chartError = NULL
           /\ ~chartLoading
           /\ ~chartIsDemoData

\* clearData was called while the only fetch was in flight, and that fetch
\* has ended
C21_Witness ==
    /\ currentSymbolRef = NULL
    /\ Len(chartCalls) = 1
    /\ chartCalls[1].pc = "done" /\ chartCalls[1].discarded

\* C28: in live mode every call of getCompanyProfile a fetch cycle makes, and
\* every profile request it sends, is for a symbol whose quote fetch in that
\* same cycle gave a quote with price > 0.
C28_ProfilesOnlyForValidQuotes ==
    FINNHUB_API_KEY =>
        \A c \in 1..Len(cycles) :
            LET cy == cycles[c]
                ok == {cy.syms[j] : j \in {j \in 1..Len(cy.fetched) : cy.fetched[j]}}
            IN  /\ \A k \in 1..Len(cy.plog) :
                       cy.plog[k].op = "call" => cy.plog[k].symbol \in ok
                /\ \A r \in requests :
                       (r.cyc = c /\ r.pass = "profile") => r.symbol \in ok

\* a cycle of two symbols, one quote fetch failed or was invalid, and a
\* profile request was sent for the other symbol
C28_Witness ==
    /\ FINNHUB_API_KEY
    /\ \E c \in 1..Len(cycles) :
           /\ Len(cycles[c].fetched) = 2
           /\ \E j \in 1..2 : ~cycles[c].fetched[j]
           /\ \E r \in requests : r.cyc = c /\ r.pass = "profile"

\* what a batch pass over the symbols list has done when it has made the
\* calls for the first n symbols
RECURSIVE Paced(_, _)
Paced(symbols, n) ==
    IF n = 0 THEN <<>>
    ELSE Paced(symbols, n - 1)
             \o (IF n > 1 THEN <<Sleep(REQUEST_DELAY)>> ELSE <<>>)
             \o <<Call(symbols[n])>>

\* what a pass over the symbols list has done in a cycle that is at symbol
\* number i of it, sleeping or in the call, or is past it
PassLog(symbols, i, sleeping, inCall) ==
    IF sleeping THEN Append(Paced(symbols, i - 1), Sleep(REQUEST_DELAY))
    ELSE IF inCall THEN Paced(symbols, i)
    ELSE Paced(symbols, Len(symbols))

\* C29: in live mode each batch pass of a cycle calls the transport for the
\* symbols of its input one at a time and in input order, once per symbol,
\* with no pacing delay before the first call and exactly one pacing delay
\* before each later call, also after a symbol that failed.
C29_PacedInOrder ==
    FINNHUB_API_KEY =>
        \A c \in 1..Len(cycles) :
            LET cy == cycles[c]
                vsyms == [k \in 1..Len(cy.valid) |-> cy.valid[k].symbol]
            IN  /\ cy.qlog = PassLog(cy.syms, cy.i, cy.pc = "quoteSleep",
                                     cy.pc = "quoteFetch")
                /\ cy.plog = IF QuotePassOver(cy)
                             THEN PassLog(vsyms, cy.i, cy.pc = "profSleep",
                                          cy.pc = "profFetch")
                             ELSE <<>>

\* the quote pass over two symbols is over and the fetch of the first symbol
\* had failed
C29_Witness ==
    /\ FINNHUB_API_KEY
    /\ \E c \in 1..Len(cycles) :
           /\ QuotePassOver(cycles[c])
           /\ Len(cycles[c].syms) = 2
           /\ ~cycles[c].fetched[1]
           /\ Len(cycles[c].qlog) = 3

----------------------------------------------------------------------------
(* Claims about cancellation of the transport *)

\* C30: once the caller's signal is aborted the invocation sends no further
\* request, and, a credential being configured, it has either raised the
\* AbortError or is in a backoff wait after which it raises it; an invocation
\* raises an AbortError only when the caller's signal or the timeout was
\* aborted, every other failure is an APIError.
C30_CancellationEndsCall ==
    [][/\ tx.signalAborted => tx'.requests = tx.requests
       /\ (FINNHUB_API_KEY /\ tx'.signalAborted)
              => \/ tx'.pc = "sleeping"
                 \/ tx'.pc = "threw" /\ tx'.err = AbortError
       /\ (tx.signalAborted /\ tx.pc = "sleeping" /\ tx'.pc # "sleeping")
              => (tx'.pc = "threw" /\ tx'.err = AbortError)
       /\ (tx'.pc = "threw" /\ tx'.err.name # "APIError")
              => (tx'.err = AbortError /\ (tx'.signalAborted \/ tx'.timedOut))
      ]_vars

\* the caller aborted during a backoff wait and the invocation has ended
C30_Witness ==
    /\ tx.signalAborted
    /\ tx.pc = "threw"
    /\ tx.waits # <<>>
    /\ Len(tx.waits) = Len(tx.responses)

----------------------------------------------------------------------------
(* Claims about the demo data generator *)

\* C26: the series generateDemoChartData returns for a symbol is a series for
\* that symbol with exactly 30 points, dates strictly ascending, the last of
\* them the date of the call, and every price positive.
C26_DemoSeriesWellFormed ==
    series # NoChartData =>
        /\ series.symbol \in Tickers
        /\ Len(series.prices) = 30
        /\ \A k \in 1..(Len(series.prices) - 1) :
               series.prices[k].date < series.prices[k + 1].date
        /\ series.prices[Len(series.prices)].date = CurrentDate
        /\ \A k \in 1..Len(series.prices) : series.prices[k].price > 0

----------------------------------------------------------------------------
(* Claims about the auto-refresh timers *)

Enabled(t) == t.autoRefresh /\ t.refreshInterval > 0

TimerInvariant(t, mounted) ==
    /\ Cardinality(t.running) <= 1
    /\ ~mounted => t.running = {}
    /\ \A timer \in t.running :
           timer.id = t.refreshIntervalRef /\ timer.symbol = t.symbol

\* the steps that change the interval or the enablement leave no timer of
\* before them running
Recreated(t, u) ==
    <<t.autoRefresh, t.refreshInterval>> # <<u.autoRefresh, u.refreshInterval>>
        => t.running \cap u.running = {}

\* C22: each hook has at most one interval timer running, and none once it
\* is unmounted, so that no timer starts a fetch after the unmount; a change
\* of the interval or of the enablement clears the timer that was running
\* and sets a new one when auto-refresh is still enabled; the chart hook has
\* no timer while its symbol is null.
C22_OneTimer ==
    /\ [](/\ TimerInvariant(wlTimer, wlMounted)
          /\ TimerInvariant(chTimer, chartMounted)
          /\ (wlMounted /\ wlTimer.effects) => (wlTimer.running # {} <=> Enabled(wlTimer))
          /\ (chartMounted /\ chTimer.effects) =>
                 (chTimer.running # {} <=> (Enabled(chTimer) /\ chTimer.symbol # NULL))
          /\ chTimer.symbol = NULL => chTimer.running = {})
    /\ [][/\ Recreated(wlTimer, wlTimer') /\ Recreated(chTimer, chTimer')
          /\ wlTimer'.ticks # wlTimer.ticks => wlMounted
          /\ chTimer'.ticks # chTimer.ticks => chartMounted]_vars

\* the chart hook runs its second timer, set after the interval changed, and
\* it has fired
C22_Witness ==
    /\ chartMounted /\ chTimer.created = 2 /\ chTimer.ticks > 0
    /\ chTimer.running = {[id |-> 2, symbol |-> chTimer.symbol]}

----------------------------------------------------------------------------
(* Claims about the dashboard *)

\* C23: when the dashboard starts and the store holds the selected stock of
\* an earlier session, a member of the tracked list, that stock is the
\* selected stock after the start, and the store still holds it.
C23_SelectionRestored ==
    [][(~dash.mounted /\ dash'.mounted
            /\ getSelectedStock(localStorage) # NULL
            /\ getSelectedStock(localStorage) \in Range(dash'.trackedSymbols))
         => /\ dash'.selectedStock = getSelectedStock(localStorage)
            /\ getSelectedStock(localStorage') = getSelectedStock(localStorage)]_vars

\* C25: with no credential configured (demo mode) handleAddSymbol leaves the tracked list of the dashboard
\* as it is, and no step takes a symbol of DEFAULT_SYMBOLS from it.
C25_DemoListProtected ==
    [][(~FINNHUB_API_KEY /\ dash.mounted) =>
          /\ (\E customSymbol \in Inputs : handleAddSymbol(customSymbol))
                 => dash'.trackedSymbols = dash.trackedSymbols
          /\ Range(dash.trackedSymbols) \cap Range(DEFAULT_SYMBOLS)
                 \subseteq Range(dash'.trackedSymbols)]_vars

\* both handlers have refused, and another symbol was removed before: the
\* default symbol is still tracked
C25_Witness ==
    /\ ~FINNHUB_API_KEY /\ dash.mounted
    /\ dash.toast = TOAST.DemoRemove
    /\ dash.trackedSymbols = <<"AAPL">>
    /\ wlTimer.created = 3

----------------------------------------------------------------------------
(* Claims about the tracked list *)

\* C24: after any sequence of addSymbol and removeSymbol calls, several of
\* them before the hook renders again included, the tracked list holds no
\* symbol twice and every symbol in it is trimmed and upper-cased.
C24_TrackedListIsASet ==
    /\ NoDup(trackedSymbols)
    /\ Range(trackedSymbols) \subseteq Tickers

----------------------------------------------------------------------------
(* Claims about the preference store *)

=============================================================================
